---- MODULE Spec2Model ----
(***************************************************************************)
(* A model of the GitHub organisation repository indexer:                  *)
(*   src/src/github_client.py       the repository enumerator              *)
(*   src/src/metadata_collector.py  the per-repository metadata aggregator *)
(*   src/src/json_generator.py      the report builder                     *)
(*   src/collect_repos.py           the main run                           *)
(*                                                                         *)
(* Python's None is the string None; an exception is the name of its       *)
(* class.  A remote lookup is an outcome record [kind, val]: kind "ok"     *)
(* carries the fetched value, any other kind is the exception it raises.   *)
(***************************************************************************)
EXTENDS Integers, Sequences, FiniteSets, TLC

VARIABLES
    \* GitHubClient.get_all_repositories (github_client.py)
    epc,                \* position in get_all_repositories
    include_forks,      \* argument
    include_archived,   \* argument
    all_repos,          \* the listing of the current attempt (org.get_repos)
    pos,                \* index of the next handle the for loop reads
    repositories,       \* the local accumulator of the current attempt
    attempts,           \* listing attempts issued so far
    rl_failures,        \* listing attempts aborted by quota exhaustion
    sleeps,             \* the durations time.sleep was called with, in order
    reset_delta,        \* reset_time - now of the latest _handle_rate_limit
    discarded,          \* handles the attempt aborted last had accepted
    eresult,            \* the returned list
    eraised,            \* the exception that reached the caller
    \* MetadataCollector.collect_repository_metadata (metadata_collector.py)
    cpc,                \* "idle", or "done" once the call has ended
    c_repo,             \* the handle it was called with
    c_env,              \* what each remote lookup of that repository answers
    c_result,           \* the record it returned, or the exception it raised
    c_max,              \* max_contributors, or max_chars, of the call
    \* main (collect_repos.py)
    mpc,                \* position in main
    m_repos,            \* the list get_all_repositories returned
    m_idx,              \* index of the handle the for loop is at
    repository_data,    \* the records collected so far
    failed_repos,       \* the failures recorded so far
    exit_code,          \* the status of sys.exit, -1 while running
    exit_at,            \* the line of the sys.exit that ended the run, 0 before
    \* JSONGenerator.generate_output (json_generator.py) and the file system
    gpc,                \* position in generate_output
    dest,               \* the file at the destination path: [exists, data]
    backups,            \* the backup files beside it: a set of [stamp, data]
    clock,              \* the wall clock, in seconds
    g_repos,            \* argument repositories
    g_backup,           \* argument backup_previous
    g_prev,             \* the destination file as the call found it
    g_renamed,          \* "none", "ok" or "failed": what _backup_file did
    g_chunks,           \* what json.dump writes, in order
    g_exc,              \* the exception that left generate_output
    g_log,              \* the calls that ended, in order
    \* JSONGenerator._validate_output called on a file of its own
    vpc,                \* "idle", or "done" once the call has ended
    v_file,             \* the file it was called on
    v_result,           \* NoExc, or the exception it raised
    \* JSONGenerator.create_summary called on the report at the destination
    spc,                \* "idle", or "done" once the call has ended
    s_file,             \* the destination file as the call found it
    s_result            \* the summary it returned, or the exception it raised

evars == <<epc, include_forks, include_archived, all_repos, pos, repositories,
           attempts, rl_failures, sleeps, reset_delta, discarded, eresult, eraised>>

cvars == <<cpc, c_repo, c_env, c_result, c_max>>
mvars == <<mpc, m_repos, m_idx, repository_data, failed_repos, exit_code,
           exit_at>>
gvars == <<gpc, dest, backups, clock, g_repos, g_backup, g_prev, g_renamed,
           g_chunks, g_exc, g_log>>
vvars == <<vpc, v_file, v_result>>
svars == <<spc, s_file, s_result>>

vars == <<evars, cvars, mvars, gvars, vvars, svars>>

\* the variables each component leaves alone
not_e == <<cvars, mvars, gvars, vvars, svars>>
not_c == <<evars, mvars, gvars, vvars, svars>>
not_g == <<evars, cvars, mvars, vvars, svars>>
not_v == <<evars, cvars, mvars, gvars, svars>>
not_s == <<evars, cvars, mvars, gvars, vvars>>

None == "None"

(***************************************************************************)
(* Bounds of the model.                                                    *)
(***************************************************************************)
MaxRepos == 2           \* longest listing enumerated
MaxRateLimits == 2      \* quota exhaustions of listing attempts in one call
MaxClock == 1           \* seconds the wall clock advances
MaxLangs == 3           \* languages in a reported mapping
MaxBytes == 4           \* bytes reported for one language
MaxReadme == 5          \* characters of a README text
MaxChars == 3           \* budget max_chars of a preview
MaxContribs == 3        \* contributors in a ranking
MaxTop == 3             \* configured max_contributors
MaxText == 4            \* characters of a CODEOWNERS text
MaxSummary == 6         \* records of a report whose star counts vary
MaxStars == 1           \* stars of one record
MaxLicensed == 3        \* records of a report whose licenses vary

(***************************************************************************)
(* Repository handles.  `missing` names the attributes whose read raises   *)
(* AttributeError.                                                         *)
(***************************************************************************)
Handle(n, f, a, m) == [name |-> n, fork |-> f, archived |-> a, missing |-> m]

Handles ==
    { Handle("a", FALSE, FALSE, {}), Handle("b", TRUE, FALSE, {}),
      Handle("c", FALSE, TRUE, {}),  Handle("d", TRUE, TRUE, {}) }

\* the sequences over S of length at most n in which no element occurs twice
SeqsNoRepeat(S, n) ==
    UNION { { s \in [1..k -> S] : \A i, j \in 1..k : i < j => s[i] # s[j] }
            : k \in 0..n }

Listings == SeqsNoRepeat(Handles, MaxRepos)

(***************************************************************************)
(* github_client.py                                                        *)
(***************************************************************************)
SAFETY_MARGIN == 10

\* reset_time - now, in seconds, as get_rate_limit() may report it
ResetDeltas == { -15, -10, 5 }

ApiOutcomes == { "ok", "RateLimitExceededException", "GithubException" }

\* the filters with the archived test left out
Skipped_ForksOnly(repo, inc_forks, inc_archived) ==
    ~inc_forks /\ repo.fork

\* lines 90-96: the two `continue` filters of the for loop
Skipped(repo, inc_forks, inc_archived) ==
    IF ~inc_forks /\ repo.fork THEN TRUE
    ELSE IF ~inc_archived /\ repo.archived THEN TRUE
    ELSE FALSE

\* a wait without the safety margin
SleepTime_NoMargin(delta) == delta

\* line 115
SleepTime(delta) == delta + SAFETY_MARGIN

EnumIdle ==
    /\ epc = "idle"
    /\ include_forks = TRUE /\ include_archived = TRUE
    /\ all_repos = <<>> /\ pos = 0 /\ repositories = <<>>
    /\ attempts = 0 /\ rl_failures = 0 /\ sleeps = <<>>
    /\ reset_delta = 0 /\ discarded = 0
    /\ eresult = <<>> /\ eraised = None

\* the call: arguments bound (lines 67-69)
EnumCall ==
    /\ epc = "idle"
    /\ \E f \in BOOLEAN, a \in BOOLEAN :
          /\ include_forks' = f
          /\ include_archived' = a
    /\ epc' = "get_organization"
    /\ UNCHANGED <<all_repos, pos, repositories, attempts, rl_failures, sleeps,
                   reset_delta, discarded, eresult, eraised>>
    /\ UNCHANGED not_e

\* a restart that keeps the accumulator of the aborted attempt
GetOrganization_KeepsList ==
    /\ epc = "get_organization"
    /\ \E out \in ApiOutcomes :
          IF out = "ok"
          THEN /\ epc' = "get_repos"
               /\ UNCHANGED <<repositories, eraised>>
          ELSE /\ epc' = "raised"
               /\ eraised' = out
               /\ UNCHANGED repositories
    /\ UNCHANGED <<include_forks, include_archived, all_repos, pos, attempts,
                   rl_failures, sleeps, reset_delta, discarded, eresult>>
    /\ UNCHANGED not_e

\* lines 81-82: get_organization is called outside the try block; it logs and
\* re-raises any GithubException (lines 59-65), RateLimitExceededException
\* included, which so reaches the caller.
GetOrganization ==
    /\ epc = "get_organization"
    /\ \E out \in ApiOutcomes :
          IF out = "ok"
          THEN /\ repositories' = <<>>
               /\ epc' = "get_repos"
               /\ UNCHANGED eraised
          ELSE /\ epc' = "raised"
               /\ eraised' = out
               /\ UNCHANGED repositories
    /\ UNCHANGED <<include_forks, include_archived, all_repos, pos, attempts,
                   rl_failures, sleeps, reset_delta, discarded, eresult>>
    /\ UNCHANGED not_e

\* line 86: the listing call, inside the try block
GetRepos ==
    /\ epc = "get_repos"
    /\ attempts' = attempts + 1
    /\ \E out \in ApiOutcomes :
          CASE out = "ok" ->
                 /\ \E l \in Listings : all_repos' = l
                 /\ pos' = 1
                 /\ epc' = "iterate"
                 /\ UNCHANGED <<rl_failures, discarded, eraised>>
            [] out = "RateLimitExceededException" ->
                 /\ rl_failures < MaxRateLimits
                 /\ rl_failures' = rl_failures + 1
                 /\ discarded' = Len(repositories)
                 /\ epc' = "rate_limit"
                 /\ UNCHANGED <<all_repos, pos, eraised>>
            [] OTHER ->
                 /\ epc' = "raised"
                 /\ eraised' = out
                 /\ UNCHANGED <<all_repos, pos, rl_failures, discarded>>
    /\ UNCHANGED <<include_forks, include_archived, repositories, sleeps,
                   reset_delta,
                   eresult>>
    /\ UNCHANGED not_e

\* a for loop whose except clause returns what was collected so far
IterateNext_Swallows ==
    /\ epc = "iterate"
    /\ pos <= Len(all_repos)
    /\ \E out \in ApiOutcomes :
          CASE out = "ok" ->
                 /\ repositories' =
                       IF Skipped(all_repos[pos], include_forks, include_archived)
                       THEN repositories
                       ELSE Append(repositories, all_repos[pos])
                 /\ pos' = pos + 1
                 /\ UNCHANGED <<epc, rl_failures, discarded, eresult>>
            [] out = "RateLimitExceededException" ->
                 /\ rl_failures < MaxRateLimits
                 /\ rl_failures' = rl_failures + 1
                 /\ discarded' = Len(repositories)
                 /\ epc' = "rate_limit"
                 /\ UNCHANGED <<repositories, pos, eresult>>
            [] OTHER ->
                 /\ epc' = "returned"
                 /\ eresult' = repositories
                 /\ UNCHANGED <<repositories, pos, rl_failures, discarded>>
    /\ UNCHANGED <<include_forks, include_archived, all_repos, attempts, sleeps,
                   reset_delta, eraised>>
    /\ UNCHANGED not_e

\* lines 88-99: one turn of the for loop; fetching the next page may raise
IterateNext ==
    /\ epc = "iterate"
    /\ pos <= Len(all_repos)
    /\ \E out \in ApiOutcomes :
          CASE out = "ok" ->
                 /\ repositories' =
                       IF Skipped(all_repos[pos], include_forks, include_archived)
                       THEN repositories
                       ELSE Append(repositories, all_repos[pos])
                 /\ pos' = pos + 1
                 /\ UNCHANGED <<epc, rl_failures, discarded, eraised>>
            [] out = "RateLimitExceededException" ->
                 /\ rl_failures < MaxRateLimits
                 /\ rl_failures' = rl_failures + 1
                 /\ discarded' = Len(repositories)
                 /\ epc' = "rate_limit"
                 /\ UNCHANGED <<repositories, pos, eraised>>
            [] OTHER ->
                 /\ epc' = "raised"
                 /\ eraised' = out
                 /\ UNCHANGED <<repositories, pos, rl_failures, discarded>>
    /\ UNCHANGED <<include_forks, include_archived, all_repos, attempts, sleeps,
                   reset_delta, eresult>>
    /\ UNCHANGED not_e

\* lines 101-102
EnumReturn ==
    /\ epc = "iterate"
    /\ pos > Len(all_repos)
    /\ eresult' = repositories
    /\ epc' = "returned"
    /\ UNCHANGED <<include_forks, include_archived, all_repos, pos, repositories,
                   attempts, rl_failures, sleeps, reset_delta, discarded, eraised>>
    /\ UNCHANGED not_e

\* lines 104-106 and 111-119: _handle_rate_limit, then the recursive call with
\* the same arguments.  get_rate_limit() runs inside the except clause, so an
\* exception it raises reaches the caller.
HandleRateLimit ==
    /\ epc = "rate_limit"
    /\ \E out \in ApiOutcomes :
          IF out = "ok"
          THEN /\ \E d \in ResetDeltas :
                     /\ reset_delta' = d
                     /\ sleeps' = IF SleepTime(d) > 0
                                  THEN Append(sleeps, SleepTime(d))
                                  ELSE sleeps
               /\ epc' = "get_organization"
               /\ UNCHANGED eraised
          ELSE /\ epc' = "raised"
               /\ eraised' = out
               /\ UNCHANGED <<sleeps, reset_delta>>
    /\ UNCHANGED <<include_forks, include_archived, all_repos, pos, repositories,
                   attempts, rl_failures, discarded, eresult>>
    /\ UNCHANGED not_e

(***************************************************************************)
(* metadata_collector.py                                                   *)
(*                                                                         *)
(* A sub-collector returns [exc, value]: exc is NoExc and value the group  *)
(* it built, or exc is the exception that leaves it.  Text is a sequence   *)
(* of one-character strings.                                               *)
(***************************************************************************)
MAX_CONTRIBUTORS == 5       \* __init__: max_contributors default
README_MAX_CHARS == 500     \* _collect_readme_preview: max_chars default

Exc(type, msg) == [type |-> type, msg |-> msg]
NoExc == Exc(None, None)
Returns(v) == [exc |-> NoExc, value |-> v]
Raises(e) == [exc |-> e, value |-> None]

Ok(v) == [kind |-> "ok", val |-> v]
Fails(k, v) == [kind |-> k, val |-> v]

\* an except clause that does not catch the subclasses of GithubException
IsGithubException_BaseOnly(kind) == kind = "GithubException"

\* except GithubException: the class and its subclasses, of which quota
\* exhaustion (RateLimitExceededException) is one
IsGithubException(kind) ==
    kind \in { "GithubException", "RateLimitExceededException" }

FullName(repo) == <<"org", repo.name>>

\* reading the attributes `reads` of the handle in this order: the exception
\* of the first one the handle lacks
ReadAttrs(repo, reads) ==
    LET bad == { i \in 1..Len(reads) : reads[i] \in repo.missing }
    IN  IF bad = {} THEN NoExc
        ELSE Exc("AttributeError",
                 reads[CHOOSE i \in bad : \A j \in bad : i <= j])

\* hasattr(repo, a)
HasAttr(repo, a) == a \notin repo.missing

\* lines 55-70
_collect_basic_info(repo) ==
    LET e == ReadAttrs(repo, <<"name", "full_name", "description", "url",
                               "html_url", "homepage", "created_at", "updated_at",
                               "pushed_at", "size", "default_branch", "private">>)
    IN  IF e # NoExc THEN Raises(e)
        ELSE Returns([name |-> repo.name,
                      full_name |-> FullName(repo),
                      description |-> None,
                      url |-> <<"api", "org", repo.name>>,
                      html_url |-> <<"html", "org", repo.name>>,
                      homepage |-> None,
                      created_at |-> "2020-01-01T00:00:00+00:00",
                      updated_at |-> "2024-01-01T00:00:00+00:00",
                      pushed_at |-> None,
                      size |-> 1,
                      default_branch |-> "main",
                      visibility |-> "public"])

\* the value the sample handles report for a boolean capability
FlagVal(repo, a) ==
    a \in {"has_issues", "has_projects", "has_wiki", "has_downloads", "has_discussions"}

\* lines 72-85
_collect_status(repo) ==
    LET e == ReadAttrs(repo, <<"archived", "fork", "has_issues", "has_projects",
                               "has_wiki", "has_pages", "has_downloads">>)
        guarded(a) == IF HasAttr(repo, a) THEN FlagVal(repo, a) ELSE FALSE
    IN  IF e # NoExc THEN Raises(e)
        ELSE Returns([is_archived |-> repo.archived,
                      is_fork |-> repo.fork,
                      is_template |-> guarded("is_template"),
                      is_disabled |-> guarded("disabled"),
                      has_issues |-> FlagVal(repo, "has_issues"),
                      has_projects |-> FlagVal(repo, "has_projects"),
                      has_wiki |-> FlagVal(repo, "has_wiki"),
                      has_pages |-> FlagVal(repo, "has_pages"),
                      has_downloads |-> FlagVal(repo, "has_downloads"),
                      has_discussions |-> guarded("has_discussions")])

\* an except clause that logs repo.full_name before it yields its result r
Logged(repo, r) ==
    IF "full_name" \in repo.missing THEN Raises(Exc("AttributeError", "full_name"))
    ELSE r

\* a lookup whose API error is not caught where it is made
Metric_Uncaught(out) ==
    IF out.kind = "ok" THEN Returns(out.val) ELSE Raises(Exc(out.kind, "activity"))

\* lines 92-97, 101-105, 109-113: totalCount of one paginated lookup, 0 when
\* the lookup raises GithubException; any other exception leaves the block
Metric(out) ==
    CASE out.kind = "ok" -> Returns(out.val)
      [] IsGithubException(out.kind) -> Returns(0)
      [] OTHER -> Raises(Exc(out.kind, "activity"))

\* the counts the sample handles carry (lines 116-119)
Count(repo, a) ==
    CASE a = "stargazers_count" -> IF repo.fork THEN 0 ELSE 7
      [] a = "watchers_count" -> IF repo.fork THEN 0 ELSE 7
      [] a = "forks_count" -> 1
      [] a = "open_issues_count" -> IF repo.archived THEN 0 ELSE 2

\* the eight keys of the activity group (lines 115-124 and 127-136)
ActivityOf(repo, commits, contribs, pulls) ==
    [stars |-> Count(repo, "stargazers_count"),
     watchers |-> Count(repo, "watchers_count"),
     forks |-> Count(repo, "forks_count"),
     open_issues |-> Count(repo, "open_issues_count"),
     open_pull_requests |-> pulls, last_commit_date |-> None,
     commit_count_30d |-> commits, contributor_count |-> contribs]

\* lines 87-136
_collect_activity(repo, env) ==
    LET commits == Metric(env.commits)
        contribs == Metric(env.contributors_count)
        pulls == Metric(env.pulls)
        warned == \E o \in {env.commits, env.contributors_count, env.pulls} :
                     IsGithubException(o.kind)
        e == IF warned /\ "full_name" \in repo.missing
             THEN Exc("AttributeError", "full_name")
             ELSE ReadAttrs(repo, <<"stargazers_count", "watchers_count",
                                    "forks_count", "open_issues_count", "pushed_at">>)
        inner == \/ commits.exc # NoExc \/ contribs.exc # NoExc
                 \/ pulls.exc # NoExc \/ e # NoExc
    IN  IF ~inner
        THEN Returns(ActivityOf(repo, commits.value, contribs.value, pulls.value))
        \* except Exception (lines 125-136): logs, then reads the handle's counts
        ELSE LET e2 == ReadAttrs(repo, <<"full_name", "stargazers_count",
                                         "watchers_count", "forks_count",
                                         "open_issues_count", "pushed_at">>)
             IN  IF e2 # NoExc THEN Raises(e2)
                 ELSE Returns(ActivityOf(repo, 0, 0, 0))

RECURSIVE SumBytes(_)
SumBytes(langs) ==
    IF langs = <<>> THEN 0 ELSE langs[1].bytes + SumBytes(Tail(langs))

\* round(bytes / total * 100, 1), in tenths of a percent (round half to even)
Round1(bytes, total) ==
    LET q == (bytes * 1000) \div total
        r == (bytes * 1000) % total
    IN  IF 2 * r < total THEN q
        ELSE IF 2 * r > total THEN q + 1
        ELSE IF q % 2 = 0 THEN q ELSE q + 1

\* max(languages.items(), key=lambda x: x[1])[0]: the first maximum
PrimaryOf(langs) ==
    LET i == CHOOSE i \in 1..Len(langs) :
                 /\ \A j \in 1..Len(langs) : langs[j].bytes <= langs[i].bytes
                 /\ \A j \in 1..(i - 1) : langs[j].bytes < langs[i].bytes
    IN  langs[i].lang

LanguagesDefault == [primary |-> None, breakdown |-> <<>>]

\* a languages lookup whose failure is reported as a language
_collect_languages_Unknown(repo, env) ==
    IF IsGithubException(env.languages.kind)
    THEN Returns([primary |-> "Unknown", breakdown |-> <<>>])
    ELSE Returns(LanguagesDefault)

\* lines 138-158; the mapping is the sequence of its items in iteration order
_collect_languages(repo, env) ==
    LET out == env.languages
    IN  CASE IsGithubException(out.kind) -> Logged(repo, Returns(LanguagesDefault))
          [] out.kind = "ok" ->
               IF out.val = <<>> THEN Returns(LanguagesDefault)
               ELSE LET total == SumBytes(out.val)
                    IN  IF total = 0
                        THEN Raises(Exc("ZeroDivisionError", "division by zero"))
                        ELSE Returns(
                               [primary |-> PrimaryOf(out.val),
                                breakdown |->
                                    [i \in 1..Len(out.val) |->
                                        [lang |-> out.val[i].lang,
                                         pct10 |-> Round1(out.val[i].bytes, total)]]])
          [] OTHER -> Raises(Exc(out.kind, "languages"))

LicenseDefault == [key |-> None, name |-> None, spdx_id |-> None, url |-> None]

\* lines 160-174; val.present: get_license() returned an object with a license
_collect_license(repo, env) ==
    LET out == env.license
    IN  CASE IsGithubException(out.kind) -> Logged(repo, Returns(LicenseDefault))
          [] out.kind = "ok" ->
               IF out.val.present
               THEN Returns([key |-> out.val.key, name |-> out.val.name,
                             spdx_id |-> out.val.spdx_id, url |-> out.val.url])
               ELSE Returns(LicenseDefault)
          [] OTHER -> Raises(Exc(out.kind, "license"))

\* lines 176-182
_collect_topics(repo, env) ==
    LET out == env.topics
    IN  CASE IsGithubException(out.kind) -> Logged(repo, Returns(<<>>))
          [] out.kind = "ok" -> Returns(out.val)
          [] OTHER -> Raises(Exc(out.kind, "topics"))

Ellipsis == <<".", ".", ".">>

\* the preview None, or the text chars
ReadmeNone == [text |-> FALSE, chars |-> <<>>]
ReadmeText(c) == [text |-> TRUE, chars |-> c]

\* a slice that keeps one character too many
Slice_OneMore(content, n) ==
    SubSeq(content, 1, IF Len(content) < n + 1 THEN Len(content) ELSE n + 1)

\* content[:n]
Slice(content, n) == SubSeq(content, 1, IF Len(content) < n THEN Len(content) ELSE n)

\* lines 184-198; kind UnicodeDecodeError: the content does not decode
_collect_readme_preview(repo, env, max_chars) ==
    LET out == env.readme
    IN  CASE IsGithubException(out.kind) -> Logged(repo, Returns(ReadmeNone))
          [] out.kind = "ok" ->
               LET preview == Slice(out.val, max_chars)
               IN  Returns(ReadmeText(IF Len(out.val) > max_chars
                                      THEN preview \o Ellipsis ELSE preview))
          [] OTHER -> Raises(Exc(out.kind, "readme"))

\* str.isspace for the characters of the model's texts
IsSpace(c) == c \in {" ", "\t", "\r", "\n"}

\* text.split("\n")
RECURSIVE SplitLines(_)
SplitLines(t) ==
    LET nl == { i \in 1..Len(t) : t[i] = "\n" }
    IN  IF nl = {} THEN << t >>
        ELSE LET i == CHOOSE i \in nl : \A j \in nl : i <= j
             IN  << SubSeq(t, 1, i - 1) >> \o SplitLines(SubSeq(t, i + 1, Len(t)))

\* line.strip()
Strip(t) ==
    LET ink == { i \in 1..Len(t) : ~IsSpace(t[i]) }
    IN  IF ink = {} THEN <<>>
        ELSE SubSeq(t, CHOOSE i \in ink : \A j \in ink : i <= j,
                       CHOOSE i \in ink : \A j \in ink : j <= i)

\* line.split(): the maximal runs of non-space characters
RECURSIVE Words(_)
Words(t) ==
    LET s == Strip(t)
        sp == { i \in 1..Len(s) : IsSpace(s[i]) }
    IN  IF s = <<>> THEN <<>>
        ELSE IF sp = {} THEN << s >>
        ELSE LET i == CHOOSE i \in sp : \A j \in sp : i <= j
             IN  << SubSeq(s, 1, i - 1) >> \o Words(SubSeq(s, i + 1, Len(s)))

\* a parse that tests for a comment before it strips the line
ParseOwners_NoStrip(text) ==
    LET lines == SplitLines(text)
        kept == { i \in 1..Len(lines) : lines[i] # <<>> /\ lines[i][1] # "#" }
    IN  UNION { { w \in { Words(lines[i])[k] : k \in 1..Len(Words(lines[i])) } :
                    w[1] = "@" }
                : i \in kept }

\* lines 246-253: the @-words of the lines that are neither blank nor comments
ParseOwners(text) ==
    LET lines == SplitLines(text)
        kept == { i \in 1..Len(lines) :
                     LET l == Strip(lines[i]) IN l # <<>> /\ l[1] # "#" }
    IN  UNION { { w \in { Words(Strip(lines[i]))[k] :
                            k \in 1..Len(Words(Strip(lines[i]))) } : w[1] = "@" }
                : i \in kept }

CodeownersDefault == [exists |-> FALSE, owners |-> {}]

CODEOWNERS_PATHS == << ".github/CODEOWNERS", "CODEOWNERS", "docs/CODEOWNERS" >>

\* the outcome r of the probes, with the paths get_contents was called with
Probed(r, paths) == [exc |-> r.exc, value |-> r.value, probed |-> paths]

\* a probe that reads every candidate and keeps the last one found
ProbeCodeowners_LastWins(repo, contents, i) ==
    LET found == { j \in i..Len(CODEOWNERS_PATHS) : contents[j].kind = "ok" }
        last == CHOOSE j \in found : \A k \in found : k <= j
    IN  Probed(IF found = {} THEN Returns(CodeownersDefault)
               ELSE Returns([exists |-> TRUE,
                             owners |-> ParseOwners(contents[last].val)]),
               SubSeq(CODEOWNERS_PATHS, i, Len(CODEOWNERS_PATHS)))

\* lines 238-258: probe the candidate paths from the i-th on
RECURSIVE ProbeCodeowners(_, _, _)
ProbeCodeowners(repo, contents, i) ==
    IF i > Len(CODEOWNERS_PATHS) THEN Probed(Returns(CodeownersDefault), <<>>)
    ELSE CASE contents[i].kind = "ok" ->
                Probed(Returns([exists |-> TRUE,
                                owners |-> ParseOwners(contents[i].val)]),
                       << CODEOWNERS_PATHS[i] >>)
           [] IsGithubException(contents[i].kind) ->
                LET rest == ProbeCodeowners(repo, contents, i + 1)
                IN  Probed(rest, << CODEOWNERS_PATHS[i] >> \o rest.probed)
           \* except Exception (line 257): logged, the default stays
           [] OTHER -> Probed(Logged(repo, Returns(CodeownersDefault)),
                              << CODEOWNERS_PATHS[i] >>)

\* a truncation that stops one entry late
Take_OneMore(s, n) == SubSeq(s, 1, IF Len(s) < n + 1 THEN Len(s) ELSE n + 1)

\* the first n entries of s
Take(s, n) == SubSeq(s, 1, IF Len(s) < n THEN Len(s) ELSE n)

\* lines 214-227; val: the contributors the iteration yielded before it ended
\* or raised
TopContributors(repo, out, max_contributors) ==
    CASE out.kind = "ok" -> Returns(Take(out.val, max_contributors))
      [] IsGithubException(out.kind) ->
           \* the loop breaks before it would fetch past max_contributors
           IF Len(out.val) > max_contributors
           THEN Returns(Take(out.val, max_contributors))
           ELSE Logged(repo, Returns(out.val))
      [] OTHER -> Raises(Exc(out.kind, "contributors"))

\* lines 230-235
Teams(repo, out) ==
    CASE out.kind = "ok" -> Returns(out.val)
      [] IsGithubException(out.kind) -> Logged(repo, Returns(out.val))
      [] OTHER -> Raises(Exc(out.kind, "teams"))

\* lines 200-260
_collect_ownership(repo, env, max_contributors) ==
    LET e == ReadAttrs(repo, <<"owner">>)
        top == TopContributors(repo, env.contributors, max_contributors)
        teams == Teams(repo, env.teams)
        co == ProbeCodeowners(repo, env.contents, 1)
    IN  IF e # NoExc THEN Raises(e)
        ELSE IF top.exc # NoExc THEN top
        ELSE IF teams.exc # NoExc THEN teams
        ELSE IF co.exc # NoExc THEN co
        ELSE Returns([owner |-> [login |-> "org", type |-> "Organization",
                                 url |-> <<"html", "org">>],
                      top_contributors |-> top.value,
                      teams |-> teams.value,
                      codeowners |-> co.value])

NoRecord == [none |-> TRUE]
Returned(rec) == [kind |-> "record", exc |-> NoExc, record |-> rec]
Raised(e) == [kind |-> "raised", exc |-> e, record |-> NoRecord]

\* lines 24-53: the groups are built in the order of the dict display; the
\* first exception leaves the try block, is logged and raised again
collect_repository_metadata(repo, env, max_contributors) ==
    LET basic == _collect_basic_info(repo)
        status == _collect_status(repo)
        activity == _collect_activity(repo, env)
        languages == _collect_languages(repo, env)
        license == _collect_license(repo, env)
        topics == _collect_topics(repo, env)
        readme == _collect_readme_preview(repo, env, README_MAX_CHARS)
        ownership == _collect_ownership(repo, env, max_contributors)
        groups == << basic, status, activity, languages, license, topics, readme,
                     ownership >>
        failed == { i \in 1..Len(groups) : groups[i].exc # NoExc }
    IN  \* line 34: logger.info reads repo.full_name before the try block
        IF "full_name" \in repo.missing
        THEN Raised(Exc("AttributeError", "full_name"))
        ELSE IF failed # {}
        THEN Raised(groups[CHOOSE i \in failed : \A j \in failed : i <= j].exc)
        ELSE Returned([basic_info |-> basic.value,
                       status |-> status.value,
                       activity |-> activity.value,
                       languages |-> languages.value,
                       license |-> license.value,
                       topics |-> topics.value,
                       readme_preview |-> readme.value,
                       ownership |-> ownership.value])

(***************************************************************************)
(* What the remote source may answer for one repository.                   *)
(***************************************************************************)
ApiError(v) == Fails("GithubException", v)

SampleLanguages ==
    << [lang |-> "Python", bytes |-> 8000], [lang |-> "JavaScript", bytes |-> 2000] >>

SampleLicense ==
    [present |-> TRUE, key |-> "mit", name |-> "MIT License", spdx_id |-> "MIT",
     url |-> "https://api.github.com/licenses/mit"]
NoLicense ==
    [present |-> FALSE, key |-> None, name |-> None, spdx_id |-> None, url |-> None]

ShortReadme == << "h", "i" >>
LongReadme == [i \in 1..(README_MAX_CHARS + 1) |-> "x"]

SampleContributors ==
    << [login |-> "u1", contributions |-> 9, profile_url |-> <<"html", "u1">>],
       [login |-> "u2", contributions |-> 4, profile_url |-> <<"html", "u2">>] >>

SampleTeams == << [name |-> "Developers", permission |-> "push"] >>

\* the CODEOWNERS file at the i-th candidate path
CodeownersText(i) ==
    << "*", " ", "@", "u", " ", "@", "v", "\n", "#", " ", "@", "c", "\n",
       "/", "d", " ", "@", "u", " ", "@", "p", CASE i = 1 -> "1" [] i = 2 -> "2"
                                                 [] OTHER -> "3" >>

CommitsOuts == { Ok(3), ApiError(0) }
ContributorCountOuts == { Ok(2), ApiError(0) }
PullsOuts == { Ok(1), ApiError(0) }
LanguagesOuts ==
    { Ok(SampleLanguages), Ok(<<>>), Ok(<< [lang |-> "Python", bytes |-> 0] >>),
      ApiError(<<>>) }
LicenseOuts == { Ok(SampleLicense), Ok(NoLicense), ApiError(NoLicense) }
TopicsOuts == { Ok(<< "python", "testing" >>), ApiError(<<>>) }
ReadmeOuts ==
    { Ok(ShortReadme), Ok(LongReadme), ApiError(<<>>),
      Fails("UnicodeDecodeError", <<>>) }
ContributorsOuts == { Ok(SampleContributors), ApiError(<<>>) }
TeamsOuts == { Ok(SampleTeams), ApiError(<<>>) }
ContentsOuts ==
    { [i \in 1..3 |-> IF i \in found THEN Ok(CodeownersText(i)) ELSE ApiError(<<>>)]
      : found \in SUBSET (1..3) }
    \cup { [i \in 1..3 |-> IF i = 1 THEN Fails("UnicodeDecodeError", <<>>)
                           ELSE Ok(CodeownersText(i))] }

Envs ==
    [commits : CommitsOuts, contributors_count : ContributorCountOuts,
     pulls : PullsOuts, languages : LanguagesOuts, license : LicenseOuts,
     topics : TopicsOuts, readme : ReadmeOuts, contributors : ContributorsOuts,
     teams : TeamsOuts, contents : ContentsOuts]

\* every lookup answers
HealthyEnv ==
    [commits |-> Ok(3), contributors_count |-> Ok(2), pulls |-> Ok(1),
     languages |-> Ok(SampleLanguages), license |-> Ok(SampleLicense),
     topics |-> Ok(<< "python", "testing" >>), readme |-> Ok(ShortReadme),
     contributors |-> Ok(SampleContributors), teams |-> Ok(SampleTeams),
     contents |-> [i \in 1..3 |-> IF i = 2 THEN Ok(CodeownersText(i))
                                  ELSE ApiError(<<>>)]]

\* handles that lack an identity attribute
MalformedHandles ==
    { Handle("m", FALSE, FALSE, {"name"}), Handle("n", FALSE, FALSE, {"full_name"}) }

CollectInputs ==
    ({ Handle("a", FALSE, FALSE, {}) } \X Envs)
    \cup (MalformedHandles \X { HealthyEnv })

CollectIdle ==
    /\ cpc = "idle"
    /\ c_repo = Handle("a", FALSE, FALSE, {})
    /\ c_env = HealthyEnv
    /\ c_result = Raised(NoExc)
    /\ c_max = MAX_CONTRIBUTORS

\* one call of collect_repository_metadata
Collect ==
    /\ cpc = "idle"
    /\ \E in \in CollectInputs :
          /\ c_repo' = in[1]
          /\ c_env' = in[2]
          /\ c_result' = collect_repository_metadata(in[1], in[2], MAX_CONTRIBUTORS)
    /\ cpc' = "done"
    /\ UNCHANGED c_max
    /\ UNCHANGED not_c

(***************************************************************************)
(* The sub-collectors called on their own                                  *)
(***************************************************************************)
\* a lookup cut off by an error that is not an API error
ConnectionError(v) == Fails("ConnectionError", v)

ActivityInputs ==
    [repo : Handles,
     commits : { Ok(0), Ok(3), ApiError(0), ConnectionError(0) },
     contributors_count : { Ok(2), ApiError(0), ConnectionError(0) },
     pulls : { Ok(1), ApiError(0), ConnectionError(0) }]

\* one call of _collect_activity
CollectActivity ==
    /\ cpc = "idle"
    /\ \E in \in ActivityInputs :
          LET env == [HealthyEnv EXCEPT !.commits = in.commits,
                                        !.contributors_count = in.contributors_count,
                                        !.pulls = in.pulls]
          IN  /\ c_repo' = in.repo
              /\ c_env' = env
              /\ c_result' = _collect_activity(in.repo, env)
    /\ cpc' = "done"
    /\ UNCHANGED c_max
    /\ UNCHANGED not_c

\* contributors as the source ranks them; the rankings need not be sorted
Contributor(login, n) ==
    [login |-> login, contributions |-> n, profile_url |-> <<"html", login>>]

Rankings ==
    SeqsNoRepeat({ Contributor("u1", 9), Contributor("u2", 4), Contributor("u3", 6) },
                 MaxContribs)

\* the iteration of get_contributors() ends, or raises after it yielded val
ContributorsInputs == { Ok(r) : r \in Rankings } \cup { ApiError(r) : r \in Rankings }

TeamsInputs == { Ok(SampleTeams), ApiError(<<>>), ApiError(SampleTeams) }

\* one call of _collect_ownership
CollectOwnership ==
    /\ cpc = "idle"
    /\ \E contributors \in ContributorsInputs, teams \in TeamsInputs,
          max_contributors \in 0..MaxTop :
          LET env == [HealthyEnv EXCEPT !.contributors = contributors,
                                        !.teams = teams]
          IN  /\ c_env' = env
              /\ c_max' = max_contributors
              /\ c_result' = _collect_ownership(c_repo, env, max_contributors)
    /\ cpc' = "done"
    /\ UNCHANGED c_repo
    /\ UNCHANGED not_c

\* the CODEOWNERS texts of at most MaxText characters
CodeownersTexts == UNION { [1..n -> {"@", "a", "#", " ", "\n"}] : n \in 0..MaxText }

\* one call of _collect_ownership on a repository with a CODEOWNERS file
CollectCodeowners ==
    /\ cpc = "idle"
    /\ \E text \in CodeownersTexts :
          LET env == [HealthyEnv EXCEPT
                         !.contents = << Ok(text), ApiError(<<>>), ApiError(<<>>) >>]
          IN  /\ c_env' = env
              /\ c_result' = _collect_ownership(c_repo, env, c_max)
    /\ cpc' = "done"
    /\ UNCHANGED <<c_repo, c_max>>
    /\ UNCHANGED not_c

\* the README texts of at most MaxReadme characters
ReadmeTexts == UNION { [1..n -> {"x", "."}] : n \in 0..MaxReadme }

ReadmeInputs == { Ok(c) : c \in ReadmeTexts } \cup { ApiError(<<>>) }

\* one call of _collect_readme_preview
CollectReadme ==
    /\ cpc = "idle"
    /\ \E out \in ReadmeInputs, max_chars \in 0..MaxChars :
          LET env == [HealthyEnv EXCEPT !.readme = out]
          IN  /\ c_env' = env
              /\ c_max' = max_chars
              /\ c_result' = _collect_readme_preview(c_repo, env, max_chars)
    /\ cpc' = "done"
    /\ UNCHANGED c_repo
    /\ UNCHANGED not_c

\* the languages of a mapping, in the order the source reports them
LANGUAGE_NAMES == << "Python", "JavaScript", "Go", "C", "Rust" >>

\* the mappings get_languages() may answer: at most MaxLangs languages of at
\* most MaxBytes bytes each
LanguageMappings ==
    UNION { { [i \in 1..n |-> [lang |-> LANGUAGE_NAMES[i], bytes |-> b[i]]]
              : b \in [1..n -> 0..MaxBytes] } : n \in 0..MaxLangs }

LanguagesInputs == { Ok(l) : l \in LanguageMappings } \cup { ApiError(<<>>) }

\* one call of _collect_languages
CollectLanguages ==
    /\ cpc = "idle"
    /\ \E out \in LanguagesInputs :
          LET env == [HealthyEnv EXCEPT !.languages = out]
          IN  /\ c_env' = env
              /\ c_result' = _collect_languages(c_repo, env)
    /\ cpc' = "done"
    /\ UNCHANGED <<c_repo, c_max>>
    /\ UNCHANGED not_c

\* the attributes _collect_status reads, in the order it reads them
STATUS_ATTRS ==
    << "archived", "fork", "is_template", "disabled", "has_issues",
       "has_projects", "has_wiki", "has_pages", "has_downloads",
       "has_discussions" >>

\* handles that do not report some of the status capabilities
StatusHandles ==
    { Handle("a", f, a, m) :
        f \in BOOLEAN, a \in BOOLEAN,
        m \in SUBSET { STATUS_ATTRS[i] : i \in 1..Len(STATUS_ATTRS) } }

\* one call of _collect_status
CollectStatus ==
    /\ cpc = "idle"
    /\ \E repo \in StatusHandles :
          /\ c_repo' = repo
          /\ c_result' = _collect_status(repo)
    /\ cpc' = "done"
    /\ UNCHANGED <<c_env, c_max>>
    /\ UNCHANGED not_c

\* a lookup that the source refuses because the quota is exhausted
QuotaExhausted(v) == Fails("RateLimitExceededException", v)

\* the remote lookups of one aggregation
LOOKUPS ==
    { "commits", "contributors_count", "pulls", "languages", "license", "topics",
      "readme", "contributors", "teams", "contents" }

\* the healthy answers, but the lookups in hit fail as Failure says; a list
\* lookup fails at once, or (partial) after it yielded an entry
FailingEnv(hit, partial, Failure(_)) ==
    LET out(l, v) == IF l \in hit THEN Failure(v) ELSE HealthyEnv[l]
    IN  [commits |-> out("commits", 0),
         contributors_count |-> out("contributors_count", 0),
         pulls |-> out("pulls", 0),
         languages |-> out("languages", <<>>),
         license |-> out("license", NoLicense),
         topics |-> out("topics", <<>>),
         readme |-> out("readme", <<>>),
         contributors |-> out("contributors",
                              IF partial THEN Take(SampleContributors, 1) ELSE <<>>),
         teams |-> out("teams", IF partial THEN SampleTeams ELSE <<>>),
         contents |-> IF "contents" \in hit
                      THEN [i \in 1..Len(CODEOWNERS_PATHS) |-> Failure(<<>>)]
                      ELSE HealthyEnv.contents]

QuotaInputs == [hit : SUBSET LOOKUPS, partial : BOOLEAN]

\* one call of collect_repository_metadata while the quota is exhausted for
\* some of its lookups
CollectUnderQuota ==
    /\ cpc = "idle"
    /\ \E in \in QuotaInputs :
          LET env == FailingEnv(in.hit, in.partial, QuotaExhausted)
          IN  /\ c_env' = env
              /\ c_result' = collect_repository_metadata(c_repo, env, MAX_CONTRIBUTORS)
    /\ cpc' = "done"
    /\ UNCHANGED <<c_repo, c_max>>
    /\ UNCHANGED not_c

\* what the lookup of the i-th candidate path may do: answer a file, answer
\* an empty file, raise an API error, or answer content that does not decode
ProbeOutcomes(i) ==
    { Ok(CodeownersText(i)), Ok(<<>>), ApiError(<<>>), QuotaExhausted(<<>>),
      Fails("UnicodeDecodeError", <<>>) }

ProbeInputs ==
    { c \in [1..Len(CODEOWNERS_PATHS) -> UNION { ProbeOutcomes(i) : i \in 1..3 }] :
        \A i \in 1..Len(CODEOWNERS_PATHS) : c[i] \in ProbeOutcomes(i) }

\* the CODEOWNERS block of _collect_ownership (lines 237-258); c_result also
\* holds the paths it probed
CollectProbe ==
    /\ cpc = "idle"
    /\ \E contents \in ProbeInputs :
          /\ c_env' = [HealthyEnv EXCEPT !.contents = contents]
          /\ c_result' = ProbeCodeowners(c_repo, contents, 1)
    /\ cpc' = "done"
    /\ UNCHANGED <<c_repo, c_max>>
    /\ UNCHANGED not_c

\* a UTC instant, as datetime.now(timezone.utc) gives it
Instant(y, mo, d, h, mi, s) ==
    [year |-> y, month |-> mo, day |-> d, hour |-> h, minute |-> mi, second |-> s]

\* the instants at which an aggregation may run
Instants ==
    { Instant(2024, mo, d, h, mi, s) :
        mo \in 1..12, d \in { 1, 2, 28 }, h \in { 0, 13, 23 }, mi \in { 0, 30 },
        s \in { 0, 59 } }

\* line 92: now.replace(day=1) changes the day and nothing else
Since(now) == [now EXCEPT !.day = 1]

\* lines 92-93 of _collect_activity: the since argument of get_commits, for
\* the instant the clock shows
ComputeSince ==
    /\ cpc = "idle"
    /\ \E now \in Instants :
          /\ c_env' = [now |-> now]
          /\ c_result' = Returns(Since(now))
    /\ cpc' = "done"
    /\ UNCHANGED <<c_repo, c_max>>
    /\ UNCHANGED not_c

(***************************************************************************)
(* json_generator.py                                                       *)
(*                                                                         *)
(* A JSON value is a record tagged by its type t.  A file holds the        *)
(* chunks json.dump wrote, in order; json.load parses them back, and fails *)
(* on a text that is not one complete JSON value.                          *)
(***************************************************************************)
JNumber == [t |-> "number"]
JArray(items) == [t |-> "array", items |-> items]
JAbsent == [t |-> "absent"]
JObject(members, md, repos) ==
    [t |-> "object", members |-> members, metadata |-> md, repositories |-> repos]
JMetadata(keys, at, org, total) ==
    [t |-> "object", keys |-> keys, generated_at |-> at, organization |-> org,
     total_repositories |-> total, tool_version |-> "0.1.0",
     github_api_version |-> "2022-11-28"]
JError == [t |-> "error"]

METADATA_KEYS ==
    {"generated_at", "organization", "total_repositories", "tool_version",
     "github_api_version"}

\* json.dump(value, f, indent=2, ensure_ascii=False): the chunks written
json_dump(v) ==
    CASE v.t = "number" -> << [tok |-> "number"] >>
      [] v.t = "array" -> << [tok |-> "["] >> \o
                          [i \in 1..Len(v.items) |-> [tok |-> "item", rec |-> v.items[i]]]
                          \o << [tok |-> "]"] >>
      [] v.t = "object" ->
           << [tok |-> "{"] >>
           \o (IF "metadata" \in v.members
               THEN << [tok |-> "metadata", md |-> v.metadata] >> ELSE <<>>)
           \o (IF "repositories" \notin v.members THEN <<>>
               ELSE IF v.repositories.t = "array"
               THEN << [tok |-> "repositories["] >> \o
                    [i \in 1..Len(v.repositories.items) |->
                        [tok |-> "item", rec |-> v.repositories.items[i]]]
                    \o << [tok |-> "]"] >>
               ELSE << [tok |-> "repositories", val |-> v.repositories] >>)
           \o << [tok |-> "}"] >>

\* the items of a list whose opening bracket was read: up to the first "]"
ListEnd(ts) ==
    LET close == { i \in 1..Len(ts) : ts[i].tok = "]" }
    IN  IF close = {} THEN 0 ELSE CHOOSE i \in close : \A j \in close : i <= j

RECURSIVE ParseMembers(_, _)
ParseMembers(ts, obj) ==
    IF ts = <<>> THEN obj
    ELSE CASE ts[1].tok = "metadata" ->
                ParseMembers(Tail(ts),
                    [obj EXCEPT !.members = @ \cup {"metadata"},
                                !.metadata = ts[1].md])
           [] ts[1].tok = "repositories" ->
                ParseMembers(Tail(ts),
                    [obj EXCEPT !.members = @ \cup {"repositories"},
                                !.repositories = ts[1].val])
           [] ts[1].tok = "repositories[" ->
                LET c == ListEnd(Tail(ts))
                IN  IF c = 0 \/ \E i \in 1..(c - 1) : Tail(ts)[i].tok # "item"
                    THEN JError
                    ELSE ParseMembers(SubSeq(ts, c + 2, Len(ts)),
                            [obj EXCEPT !.members = @ \cup {"repositories"},
                                        !.repositories =
                                            JArray([i \in 1..(c - 1) |-> Tail(ts)[i].rec])])
           [] OTHER -> JError

\* json.load(f) on a file holding the chunks ts
json_load(ts) ==
    LET n == Len(ts)
    IN  IF n = 0 THEN JError
        ELSE CASE ts[1].tok = "number" -> IF n = 1 THEN JNumber ELSE JError
               [] ts[1].tok = "[" ->
                    IF n >= 2 /\ ListEnd(ts) = n
                       /\ \A i \in 2..(n - 1) : ts[i].tok = "item"
                    THEN JArray([i \in 1..(n - 2) |-> ts[i + 1].rec]) ELSE JError
               [] ts[1].tok = "{" ->
                    IF n >= 2 /\ ts[n].tok = "}"
                    THEN ParseMembers(SubSeq(ts, 2, n - 1),
                                      JObject({}, JAbsent, JAbsent))
                    ELSE JError
               [] OTHER -> JError

NoFile == [exists |-> FALSE, data |-> <<>>]
File(data) == [exists |-> TRUE, data |-> data]

\* Python's `key in v` for a JSON value: [exc, value]
Contains(key, keys, v) ==
    CASE v.t = "object" -> Returns(key \in keys)
      [] v.t = "array" -> Returns(FALSE)    \* the lists here hold no strings
      [] OTHER -> Raises(Exc("TypeError", "not iterable"))

\* a validation that does not compare the counts
CheckCount_Skipped(repos, expected_count) == NoExc

\* lines 104-109; the message goes on with the two counts
CheckCount(repos, expected_count) ==
    IF Len(repos) # expected_count
    THEN Exc("AssertionError", "Repository count mismatch")
    ELSE NoExc

\* lines 95-109 on the parsed document: the first check that fails
ValidateData(data) ==
    LET hasmd == Contains("metadata", IF data.t = "object" THEN data.members ELSE {}, data)
        hasrepos == Contains("repositories",
                             IF data.t = "object" THEN data.members ELSE {}, data)
        md == data.metadata
        mdkeys == IF md.t = "object" THEN md.keys ELSE {}
    IN  IF hasmd.exc # NoExc THEN hasmd.exc
        ELSE IF ~hasmd.value THEN Exc("AssertionError", "Missing 'metadata' section")
        ELSE IF ~hasrepos.value
        THEN Exc("AssertionError", "Missing 'repositories' section")
        \* from here on data is a dict: only a dict has the key
        ELSE IF data.repositories.t # "array"
        THEN Exc("AssertionError", "'repositories' must be a list")
        ELSE IF Contains("generated_at", mdkeys, md).exc # NoExc
        THEN Contains("generated_at", mdkeys, md).exc
        ELSE IF ~Contains("generated_at", mdkeys, md).value
        THEN Exc("AssertionError", "Missing 'generated_at' in metadata")
        ELSE IF ~Contains("organization", mdkeys, md).value
        THEN Exc("AssertionError", "Missing 'organization' in metadata")
        ELSE IF ~Contains("total_repositories", mdkeys, md).value
        THEN Exc("AssertionError", "Missing 'total_repositories' in metadata")
        ELSE CheckCount(data.repositories.items, md.total_repositories)

\* lines 88-118: NoExc, or the exception it raises
_validate_output(file) ==
    IF ~file.exists THEN Exc("FileNotFoundError", "open")
    ELSE LET data == json_load(file.data)
         IN  IF data.t = "error" THEN Exc("JSONDecodeError", "load")
             ELSE ValidateData(data)

\* a metadata block that counts one repository too many
_create_metadata_OffByOne(org_name, total_repos, now) ==
    JMetadata(METADATA_KEYS, now, org_name, total_repos + 1)

\* lines 67-75
_create_metadata(org_name, total_repos, now) ==
    JMetadata(METADATA_KEYS, now, org_name, total_repos)

\* lines 47-50
OutputOf(org_name, repos, now) ==
    JObject({"metadata", "repositories"},
            _create_metadata(org_name, Len(repos), now), JArray(repos))

GenIdle ==
    /\ gpc = "idle"
    /\ backups = {}
    /\ clock = 0
    /\ g_repos = <<>> /\ g_backup = FALSE /\ g_prev = NoFile
    /\ g_renamed = "none" /\ g_chunks = <<>> /\ g_exc = NoExc /\ g_log = <<>>

\* the call: arguments bound, output_path made (line 40)
Enter(repos, backup_previous) ==
    /\ g_repos' = repos
    /\ g_backup' = backup_previous
    /\ g_prev' = dest
    /\ g_renamed' = "none"
    /\ g_chunks' = <<>>
    /\ g_exc' = NoExc
    /\ gpc' = "backup"
    /\ UNCHANGED <<dest, backups, clock, g_log>>

\* a backup that removes the existing file without keeping it
_backup_file_Drops(file, baks, now, rename_ok) ==
    IF rename_ok
    THEN [renamed |-> "ok", dest |-> NoFile, backups |-> baks, exc |-> NoExc]
    ELSE [renamed |-> "failed", dest |-> file, backups |-> baks, exc |-> NoExc]

\* a backup that lets the failure of the rename out
_backup_file_Raises(file, baks, now, rename_ok) ==
    IF rename_ok
    THEN [renamed |-> "ok", dest |-> NoFile,
          backups |-> { b \in baks : b.stamp # now }
                      \cup { [stamp |-> now, data |-> file.data] },
          exc |-> NoExc]
    ELSE [renamed |-> "failed", dest |-> file, backups |-> baks,
          exc |-> Exc("OSError", "rename")]

\* lines 77-86: [renamed, dest, backups] after _backup_file; the name of the
\* backup carries the second it is made in, and rename replaces a file of that
\* name; a rename that fails is logged and leaves everything in place
_backup_file(file, baks, now, rename_ok) ==
    IF rename_ok
    THEN [renamed |-> "ok", dest |-> NoFile,
          backups |-> { b \in baks : b.stamp # now }
                      \cup { [stamp |-> now, data |-> file.data] },
          exc |-> NoExc]
    ELSE [renamed |-> "failed", dest |-> file, backups |-> baks, exc |-> NoExc]

EndCall(outcome) ==
    g_log' = Append(g_log, [backup_previous |-> g_backup, found |-> g_prev,
                            renamed |-> g_renamed, report |-> g_chunks,
                            outcome |-> outcome])

\* lines 42-50: the optional backup, then the document is built
GenBackup ==
    /\ gpc = "backup"
    /\ \E rename_ok \in BOOLEAN :
          LET b == IF g_backup /\ dest.exists
                   THEN _backup_file(dest, backups, clock, rename_ok)
                   ELSE [renamed |-> "none", dest |-> dest, backups |-> backups,
                         exc |-> NoExc]
          IN  IF b.exc # NoExc
              THEN /\ gpc' = "raised"
                   /\ g_exc' = b.exc
                   /\ g_log' = Append(g_log,
                         [backup_previous |-> g_backup, found |-> g_prev,
                          renamed |-> "failed", report |-> <<>>,
                          outcome |-> "raised"])
                   /\ UNCHANGED <<dest, backups, g_renamed, g_chunks>>
              ELSE /\ g_renamed' = b.renamed
                   /\ dest' = b.dest
                   /\ backups' = b.backups
                   /\ g_chunks' = json_dump(OutputOf("org", g_repos, clock))
                   /\ gpc' = "open"
                   /\ UNCHANGED <<g_exc, g_log>>
    /\ UNCHANGED <<clock, g_repos, g_backup, g_prev>>
    /\ UNCHANGED not_g

\* line 54: open(output_path, "w") creates the file or truncates it
GenOpen ==
    /\ gpc = "open"
    /\ \E ok \in BOOLEAN :
          IF ok
          THEN /\ dest' = File(<<>>)
               /\ gpc' = "write"
               /\ UNCHANGED <<g_exc, g_log>>
          ELSE /\ gpc' = "raised"
               /\ g_exc' = Exc("OSError", "open")
               /\ EndCall("raised")
               /\ UNCHANGED dest
    /\ UNCHANGED <<backups, clock, g_repos, g_backup, g_prev, g_renamed, g_chunks>>
    /\ UNCHANGED not_g

\* line 55: json.dump writes the document chunk by chunk; a write may fail,
\* and the with block then closes the file over what was written
GenWrite ==
    /\ gpc = "write"
    /\ Len(dest.data) < Len(g_chunks)
    /\ \E ok \in BOOLEAN :
          IF ok
          THEN /\ dest' = File(Append(dest.data, g_chunks[Len(dest.data) + 1]))
               /\ UNCHANGED <<gpc, g_exc, g_log>>
          ELSE /\ gpc' = "raised"
               /\ g_exc' = Exc("OSError", "write")
               /\ EndCall("raised")
               /\ UNCHANGED dest
    /\ UNCHANGED <<backups, clock, g_repos, g_backup, g_prev, g_renamed, g_chunks>>
    /\ UNCHANGED not_g

\* lines 57-65: the file is closed, then read back and validated
GenValidate ==
    /\ gpc = "write"
    /\ Len(dest.data) = Len(g_chunks)
    /\ LET e == _validate_output(dest)
       IN  IF e = NoExc
           THEN /\ gpc' = "returned"
                /\ EndCall("returned")
                /\ UNCHANGED g_exc
           ELSE /\ gpc' = "raised"
                /\ g_exc' = e
                /\ EndCall("raised")
    /\ UNCHANGED <<dest, backups, clock, g_repos, g_backup, g_prev, g_renamed,
                   g_chunks>>
    /\ UNCHANGED not_g

\* the process is interrupted (KeyboardInterrupt, collect_repos.py line 243)
\* while generate_output runs
GenInterrupt ==
    /\ gpc \in {"backup", "open", "write"}
    /\ gpc' = "interrupted"
    /\ g_exc' = Exc("KeyboardInterrupt", "")
    /\ EndCall("interrupted")
    /\ UNCHANGED <<dest, backups, clock, g_repos, g_backup, g_prev, g_renamed,
                   g_chunks>>
    /\ UNCHANGED not_g

\* a second passes between two calls
Tick ==
    /\ gpc \in {"idle", "returned", "raised", "interrupted"}
    /\ clock < MaxClock
    /\ clock' = clock + 1
    /\ UNCHANGED <<gpc, dest, backups, g_repos, g_backup, g_prev, g_renamed,
                   g_chunks, g_exc, g_log>>
    /\ UNCHANGED not_g

(***************************************************************************)
(* generate_output called repeatedly on one destination                    *)
(***************************************************************************)
\* a record as the tests of the generator pass it (test_json_generator.py,
\* 203-209): generate_output only counts the records and hands them to json.dump
StubRecord(i) == [basic_info |-> [name |-> i], activity |-> [stars |-> 0]]

SampleRecords == << StubRecord(1), StubRecord(2), StubRecord(3), StubRecord(4) >>

\* the record lists generate_output is called with
GenRepoLists ==
    { Take(SampleRecords, n) : n \in 0..MaxRepos }
    \cup { << SampleRecords[2], SampleRecords[1] >> }

\* a report an earlier run left at the destination
OldReport == json_dump(OutputOf("org", << SampleRecords[3] >>, 0))

\* the first call on a destination (tests/unit/test_json_generator.py, 86-92)
FirstCall ==
    /\ gpc = "idle"
    /\ g_log = <<>>
    /\ \E repos \in GenRepoLists, backup_previous \in BOOLEAN :
          Enter(repos, backup_previous)
    /\ UNCHANGED not_g

\* the second call on it (tests/unit/test_json_generator.py, 94-100)
SecondCall ==
    /\ gpc \in {"returned", "raised", "interrupted"}
    /\ Len(g_log) = 1
    /\ \E repos \in GenRepoLists, backup_previous \in BOOLEAN :
          Enter(repos, backup_previous)
    /\ UNCHANGED not_g

(***************************************************************************)
(* _validate_output called on a file of its own                            *)
(***************************************************************************)
RequiredKeys == {"generated_at", "organization", "total_repositories"}

TestMetadata ==
    { JMetadata(keys, IF "generated_at" \in keys THEN 0 ELSE -1,
                IF "organization" \in keys THEN "org" ELSE None,
                IF "total_repositories" \in keys THEN n ELSE -1)
      : keys \in SUBSET RequiredKeys, n \in 0..(MaxRepos + 1) }
    \cup { JNumber, JArray(<<>>) }

TestRepositories ==
    { JArray([i \in 1..n |-> StubRecord(i)]) : n \in 0..MaxRepos } \cup { JNumber }

TestDocs ==
    { JObject(members,
              IF "metadata" \in members THEN md ELSE JAbsent,
              IF "repositories" \in members THEN repos ELSE JAbsent)
      : members \in SUBSET {"metadata", "repositories"},
        md \in TestMetadata, repos \in TestRepositories }
    \cup { JNumber, JArray(<<>>), JArray(<< StubRecord(1) >>) }

\* a file cut short is what an interrupted write leaves
TestFiles ==
    { File(json_dump(d)) : d \in TestDocs }
    \cup { File(SubSeq(json_dump(d), 1, Len(json_dump(d)) - 1)) : d \in TestDocs }
    \cup { NoFile }

ValidateIdle == vpc = "idle" /\ v_file = NoFile /\ v_result = NoExc

Validate ==
    /\ vpc = "idle"
    /\ \E f \in TestFiles :
          /\ v_file' = f
          /\ v_result' = _validate_output(f)
    /\ vpc' = "done"
    /\ UNCHANGED not_v

(***************************************************************************)
(* json_generator.py: create_summary                                       *)
(***************************************************************************)
TOP_STARRED == 5            \* line 159
TOP_LANGUAGES == 10         \* line 170

\* Python's truth value of a string or None
Truthy(x) == x \notin { None, "" }

\* lines 143-147: the records counted by primary language, those that have
\* none left out
LanguageCounts(repos) ==
    LET named == { i \in 1..Len(repos) : Truthy(repos[i].languages.primary) }
    IN  [ l \in { repos[i].languages.primary : i \in named } |->
            Cardinality({ i \in named : repos[i].languages.primary = l }) ]

\* lines 169-171: the TOP_LANGUAGES most frequent languages
TopLanguages(counts) ==
    IF Cardinality(DOMAIN counts) <= TOP_LANGUAGES THEN counts
    ELSE LET top == CHOOSE S \in SUBSET DOMAIN counts :
                        /\ Cardinality(S) = TOP_LANGUAGES
                        /\ \A l \in S, o \in DOMAIN counts \ S :
                              counts[l] >= counts[o]
         IN  [ l \in top |-> counts[l] ]

\* a bucket that keeps the null key as it is
LicenseBucket_Null(r) == r.license.key

\* lines 152-156: the key a record is counted under
LicenseBucket(r) ==
    IF Truthy(r.license.key) THEN r.license.key ELSE "unlicensed"

\* lines 150-156
LicenseCounts(repos) ==
    [ k \in { LicenseBucket(repos[i]) : i \in 1..Len(repos) } |->
        Cardinality({ i \in 1..Len(repos) : LicenseBucket(repos[i]) = k }) ]

\* an insertion that puts a record before the records of equal star count
InsertByStars_Unstable(sorted, r) ==
    LET k == Cardinality({ i \in 1..Len(sorted) :
                             sorted[i].activity.stars > r.activity.stars })
    IN  SubSeq(sorted, 1, k) \o << r >> \o SubSeq(sorted, k + 1, Len(sorted))

\* the place of one more record in a list sorted by stars, descending: behind
\* the records of equal star count (sorted is stable, also with reverse=True)
InsertByStars(sorted, r) ==
    LET k == Cardinality({ i \in 1..Len(sorted) :
                             sorted[i].activity.stars >= r.activity.stars })
    IN  SubSeq(sorted, 1, k) \o << r >> \o SubSeq(sorted, k + 1, Len(sorted))

\* line 159: sorted(repos, key=stars, reverse=True)
RECURSIVE SortedByStars(_)
SortedByStars(repos) ==
    IF repos = <<>> THEN <<>>
    ELSE InsertByStars(SortedByStars(SubSeq(repos, 1, Len(repos) - 1)),
                       repos[Len(repos)])

\* lines 173-180
TopStarred(repos) ==
    LET top_repos == Take(SortedByStars(repos), TOP_STARRED)
    IN  [ i \in 1..Len(top_repos) |->
            [name |-> top_repos[i].basic_info.full_name,
             stars |-> top_repos[i].activity.stars,
             url |-> top_repos[i].basic_info.html_url] ]

\* the groups of a record create_summary reads
SUMMARY_GROUPS == { "status", "languages", "license", "activity", "basic_info" }

\* lines 130-187: [exc, value]
create_summary(file) ==
    IF ~file.exists THEN Raises(Exc("FileNotFoundError", "output_file"))
    ELSE LET data == json_load(file.data)
         IN  CASE data.t = "error" -> Raises(Exc("JSONDecodeError", "output_file"))
               [] data.t # "object" -> Raises(Exc("TypeError", "repositories"))
               [] "repositories" \notin data.members ->
                    Raises(Exc("KeyError", "repositories"))
               [] data.repositories.t # "array" ->
                    Raises(Exc("TypeError", "status"))
               [] \E i \in 1..Len(data.repositories.items) :
                     ~(SUMMARY_GROUPS \subseteq DOMAIN data.repositories.items[i]) ->
                    Raises(Exc("KeyError", "record"))
               [] OTHER ->
                    LET repos == data.repositories.items
                        n(flag) == Cardinality({ i \in 1..Len(repos) :
                                                   repos[i].status[flag] })
                    IN  Returns(
                          [total_repositories |-> Len(repos),
                           status_breakdown |->
                              [active |-> Len(repos) - n("is_archived"),
                               archived |-> n("is_archived"),
                               forks |-> n("is_fork"),
                               templates |-> n("is_template")],
                           top_languages |-> TopLanguages(LanguageCounts(repos)),
                           license_breakdown |-> LicenseCounts(repos),
                           top_starred |-> TopStarred(repos)])

\* a record of a report, as far as create_summary reads it
SummaryRecord(i, stars, key, archived) ==
    [basic_info |-> [name |-> i, full_name |-> <<"org", i>>,
                     html_url |-> <<"html", "org", i>>],
     status |-> [is_archived |-> archived, is_fork |-> FALSE,
                 is_template |-> FALSE],
     languages |-> [primary |-> IF i % 2 = 1 THEN "Python" ELSE None],
     license |-> [key |-> key],
     activity |-> [stars |-> stars]]

\* the license keys of the sample records
LICENSE_KEYS == { "mit", "apache-2.0" }

\* record lists that differ in their star counts
StarredLists ==
    UNION { { [i \in 1..n |-> SummaryRecord(i, st[i], "mit", FALSE)]
              : st \in [1..n -> 0..MaxStars] } : n \in 0..MaxSummary }

\* record lists that differ in their licenses and archive flags
LicensedLists ==
    UNION { { [i \in 1..n |-> SummaryRecord(i, 0, k[i], a[i])]
              : k \in [1..n -> LICENSE_KEYS \cup { None }],
                a \in [1..n -> BOOLEAN] } : n \in 0..MaxLicensed }

\* the reports generate_output leaves for these lists
SummaryReports ==
    { File(json_dump(OutputOf("org", l, 0)))
      : l \in StarredLists \cup LicensedLists }

SummaryIdle == spc = "idle" /\ s_file = NoFile /\ s_result = Returns(None)

\* one call of create_summary on the destination file, which it opens for
\* reading only
Summarize ==
    /\ spc = "idle"
    /\ s_file' = dest
    /\ s_result' = create_summary(dest)
    /\ spc' = "done"
    /\ UNCHANGED not_s

(***************************************************************************)
(* collect_repos.py: main                                                  *)
(***************************************************************************)
MainHandles == { Handle("a", FALSE, FALSE, {}), Handle("b", TRUE, FALSE, {}) }
                \cup MalformedHandles

\* the lists get_all_repositories may hand to the loop
MainRepoLists == SeqsNoRepeat(MainHandles, MaxRepos)

MainEnvs ==
    { HealthyEnv,
      [HealthyEnv EXCEPT !.readme = Fails("UnicodeDecodeError", <<>>)],
      [HealthyEnv EXCEPT !.languages = ApiError(<<>>), !.topics = ApiError(<<>>),
                         !.commits = ApiError(0)] }

MainIdle ==
    /\ mpc = "start"
    /\ m_repos = <<>> /\ m_idx = 0
    /\ repository_data = <<>> /\ failed_repos = <<>>
    /\ exit_code = -1
    /\ exit_at = 0

\* the statuses main passes to sys.exit
EXIT_NOTHING_FOUND == 1     \* line 142
EXIT_INTERRUPTED == 130     \* line 245
EXIT_FAILURE == 1           \* line 249

\* line 241: 0 if not failed_repos else 1
ExitStatus(failed) == IF failed = <<>> THEN 0 ELSE 1

\* sys.exit(code) at the given line
Exit(line, code) == mpc' = "exited" /\ exit_code' = code /\ exit_at' = line

\* lines 124-144: the components are made and the repositories fetched
MainFetch ==
    /\ mpc = "start"
    /\ \E out \in {"ok", "GithubException"} :
          IF out = "ok"
          THEN \E l \in MainRepoLists :
                  /\ m_repos' = l
                  /\ IF l = <<>>
                     THEN Exit(142, EXIT_NOTHING_FOUND) /\ UNCHANGED m_idx
                     ELSE /\ mpc' = "loop" /\ m_idx' = 1
                          /\ UNCHANGED <<exit_code, exit_at>>
          ELSE Exit(249, EXIT_FAILURE) /\ UNCHANGED <<m_repos, m_idx>>
    /\ UNCHANGED <<repository_data, failed_repos>>
    /\ UNCHANGED <<evars, cvars, gvars, vvars, svars>>

\* lines 159-171: one turn of the for loop, its except clause included
MainLoopStep ==
    /\ mpc = "loop"
    /\ m_idx <= Len(m_repos)
    /\ \E env \in MainEnvs :
          LET repo == m_repos[m_idx]
              \* line 161 reads repo.full_name inside the try block
              r == IF "full_name" \in repo.missing
                   THEN Raised(Exc("AttributeError", "full_name"))
                   ELSE collect_repository_metadata(repo, env, MAX_CONTRIBUTORS)
          IN  IF r.kind = "record"
              THEN /\ repository_data' = Append(repository_data, r.record)
                   /\ m_idx' = m_idx + 1
                   /\ UNCHANGED <<mpc, failed_repos, exit_code, exit_at>>
              \* line 169 reads repo.full_name again, in the except clause: an
              \* exception there leaves the loop for the clause of line 246
              ELSE IF "full_name" \in repo.missing
              THEN /\ Exit(249, EXIT_FAILURE)
                   /\ UNCHANGED <<repository_data, failed_repos, m_idx>>
              ELSE /\ failed_repos' = Append(failed_repos,
                          [name |-> FullName(repo), error |-> r.exc.msg])
                   /\ m_idx' = m_idx + 1
                   /\ UNCHANGED <<mpc, repository_data, exit_code, exit_at>>
    /\ UNCHANGED m_repos
    /\ UNCHANGED <<evars, cvars, gvars, vvars, svars>>

\* a report that is generated before the loop has read every handle
MainGenerate_Early ==
    /\ mpc = "loop"
    /\ gpc = "idle"
    /\ \E backup \in BOOLEAN : Enter(repository_data, backup)
    /\ mpc' = "generate"
    /\ UNCHANGED <<m_repos, m_idx, repository_data, failed_repos, exit_code,
                   exit_at>>
    /\ UNCHANGED <<evars, cvars, vvars, svars>>

\* lines 175-177: generate_output is called with the collected records
MainGenerate ==
    /\ mpc = "loop"
    /\ m_idx > Len(m_repos)
    /\ gpc = "idle"
    /\ \E backup \in BOOLEAN : Enter(repository_data, backup)
    /\ mpc' = "generate"
    /\ UNCHANGED <<m_repos, m_idx, repository_data, failed_repos, exit_code,
                   exit_at>>
    /\ UNCHANGED <<evars, cvars, vvars, svars>>

\* lines 179-249: what follows generate_output; check_rate_limit (line 239)
\* queries the source once more and may raise
MainFinish ==
    /\ mpc = "generate"
    /\ gpc \in {"returned", "raised", "interrupted"}
    /\ \E rate_limit_ok \in BOOLEAN :
          CASE gpc = "interrupted" -> Exit(245, EXIT_INTERRUPTED)
            [] gpc = "raised" -> Exit(249, EXIT_FAILURE)
            [] OTHER -> IF ~rate_limit_ok THEN Exit(249, EXIT_FAILURE)
                        ELSE Exit(241, ExitStatus(failed_repos))
    /\ UNCHANGED <<m_repos, m_idx, repository_data, failed_repos>>
    /\ UNCHANGED <<evars, cvars, gvars, vvars, svars>>

\* lines 243-245: the user interrupts the run
MainInterrupt ==
    /\ mpc \in {"start", "loop"}
    /\ Exit(245, EXIT_INTERRUPTED)
    /\ UNCHANGED <<m_repos, m_idx, repository_data, failed_repos>>
    /\ UNCHANGED <<evars, cvars, gvars, vvars, svars>>

(***************************************************************************)
(* Specifications                                                          *)
(***************************************************************************)
DestAtStart == dest \in { NoFile, File(OldReport) }

Idle ==
    EnumIdle /\ CollectIdle /\ MainIdle /\ GenIdle /\ ValidateIdle /\ SummaryIdle

\* get_all_repositories
InitEnum == Idle /\ dest = NoFile

EnumNext ==
    \/ EnumCall
    \/ GetOrganization
    \/ GetRepos
    \/ IterateNext
    \/ EnumReturn
    \/ HandleRateLimit

SpecEnum == InitEnum /\ [][EnumNext]_vars

\* get_all_repositories, when the interpreter keeps running the call: every
\* lookup answers and every sleep ends
SpecEnumFair == InitEnum /\ [][EnumNext]_vars /\ WF_vars(EnumNext)

\* collect_repository_metadata
InitCollect == Idle /\ dest = NoFile

SpecCollect == InitCollect /\ [][Collect]_vars

\* _collect_ownership: contributors and teams
SpecOwnership == InitCollect /\ [][CollectOwnership]_vars

\* _collect_ownership: the CODEOWNERS file
SpecCodeowners == InitCollect /\ [][CollectCodeowners]_vars

\* _collect_readme_preview
SpecReadme == InitCollect /\ [][CollectReadme]_vars

\* _collect_languages
SpecLanguages == InitCollect /\ [][CollectLanguages]_vars

\* _collect_activity
SpecActivity == InitCollect /\ [][CollectActivity]_vars

\* _collect_status
SpecStatus == InitCollect /\ [][CollectStatus]_vars

\* collect_repository_metadata under quota exhaustion
SpecQuota == InitCollect /\ [][CollectUnderQuota]_vars

\* _collect_ownership: the probes for a CODEOWNERS file
SpecProbe == InitCollect /\ [][CollectProbe]_vars

\* _collect_activity: the window of the commit count
SpecSince == InitCollect /\ [][ComputeSince]_vars

\* generate_output, called twice on one destination of a fresh directory
InitGen == Idle /\ dest = NoFile

GenNext ==
    \/ FirstCall
    \/ SecondCall
    \/ GenBackup
    \/ GenOpen
    \/ GenWrite
    \/ GenValidate
    \/ GenInterrupt
    \/ Tick

SpecGen == InitGen /\ [][GenNext]_vars

\* _validate_output
InitValidate == Idle /\ dest = NoFile

SpecValidate == InitValidate /\ [][Validate]_vars

\* create_summary on a report
InitSummary == Idle /\ dest \in SummaryReports

SpecSummary == InitSummary /\ [][Summarize]_vars

\* the main run
Init == Idle /\ DestAtStart

Next ==
    \/ MainFetch
    \/ MainLoopStep
    \/ MainGenerate
    \/ GenBackup
    \/ GenOpen
    \/ GenWrite
    \/ GenValidate
    \/ GenInterrupt
    \/ Tick
    \/ MainFinish
    \/ MainInterrupt

Spec == Init /\ [][Next]_vars

(***************************************************************************)
(* Properties of the specification, each under the behaviours it names     *)
(***************************************************************************)

\* C1 (SpecCollect): collect_repository_metadata fails only on a handle that
\* lacks an attribute; on a handle with every attribute readable it returns a
\* record whatever fails inside a sub-lookup (API error, undecodable content,
\* arithmetic error).
C1_SubLookupFailureNeverAborts ==
    (cpc = "done" /\ c_repo.missing = {}) => c_result.kind = "record"

\* the i-th enumerated handle has a record in repository_data
Aggregated(i) ==
    \E k \in 1..Len(repository_data) :
        repository_data[k].basic_info.name = m_repos[i].name

\* the failure entries that name the i-th enumerated handle
FailuresOf(i) ==
    { k \in 1..Len(failed_repos) : failed_repos[k].name = FullName(m_repos[i]) }

\* C2 (Spec): once the run is past the loop, or has ended without the user
\* interrupting it, every enumerated handle was processed: it has a record,
\* or else exactly one entry of the failure list carries its full name and an
\* error text.  No failing handle ends the run early.
C2_LoopIsolatesFailures ==
    (mpc \in {"generate", "exited"} /\ m_repos # <<>> /\ exit_code # 130) =>
        \A i \in 1..Len(m_repos) :
            IF Aggregated(i) THEN FailuresOf(i) = {}
            ELSE /\ Cardinality(FailuresOf(i)) = 1
                 /\ \A k \in FailuresOf(i) : failed_repos[k].error # None

\* C3 (SpecEnum): quota exhaustion never reaches the caller of
\* get_all_repositories as an error, wherever in the call it occurs.
C3_QuotaExhaustionNeverSurfaces ==
    ~(epc = "raised" /\ eraised = "RateLimitExceededException")

\* the handles the two filters let through
Included(h) ==
    ~((~include_forks /\ h.fork) \/ (~include_archived /\ h.archived))

\* C4 (SpecEnum): get_all_repositories returns exactly the handles of the
\* listing that the filters do not exclude, each once and in listing order;
\* with both flags true it returns the whole listing.
C4_FilterExact ==
    epc = "returned" =>
        /\ eresult = SelectSeq(all_repos, Included)
        /\ (include_forks /\ include_archived => eresult = all_repos)

C4_Witness ==
    /\ epc = "returned"
    /\ ~include_forks /\ include_archived
    /\ Len(all_repos) = 2 /\ Len(eresult) = 1
    /\ all_repos[1].fork /\ all_repos[2].archived
    /\ rl_failures > 0

\* C5 (SpecGen): when generate_output returns, the file at the destination
\* parses to a document whose total_repositories is the number of records it
\* was given and whose repositories are those records in their order; the
\* validation that runs before it returns accepts the file, and never rejects
\* a file generate_output wrote completely.
C5_ReportRoundTrip ==
    /\ gpc = "returned" =>
          LET data == json_load(dest.data)
          IN  /\ data.t = "object"
              /\ data.metadata.total_repositories = Len(g_repos)
              /\ data.repositories.t = "array"
              /\ Len(data.repositories.items) = Len(g_repos)
              /\ data.repositories.items = g_repos
              /\ _validate_output(dest) = NoExc
    /\ gpc = "raised" => g_exc.type = "OSError"

C5_Witness ==
    /\ gpc = "returned"
    /\ Len(g_repos) = 2
    /\ g_repos[1] = SampleRecords[2]
    /\ json_load(dest.data).repositories.items = g_repos

\* C6 (SpecGen): at every point of a call of generate_output the destination
\* holds no file, the file the call found there, or the complete new report.
C6_WriteAllOrNothing ==
    gpc # "idle" =>
        \/ dest = NoFile
        \/ dest = g_prev
        \/ (g_chunks # <<>> /\ dest = File(g_chunks))

RECORD_GROUPS ==
    {"basic_info", "status", "activity", "languages", "license", "topics",
     "readme_preview", "ownership"}

\* the languages group agrees with the fetched byte counts
LanguagesFetched(group, langs) ==
    /\ Len(group.breakdown) = Len(langs)
    /\ \A i \in 1..Len(langs) : group.breakdown[i].lang = langs[i].lang
    /\ \E i \in 1..Len(langs) :
          /\ group.primary = langs[i].lang
          /\ \A j \in 1..Len(langs) : langs[j].bytes <= langs[i].bytes

\* C7 (SpecCollect): a record collect_repository_metadata returns has exactly
\* the eight groups; a group whose lookup failed with an API error holds its
\* default, and a group whose lookup answered holds what was fetched, whatever
\* the other lookups did.
C7_CompleteRecordWithDefaults ==
    (cpc = "done" /\ c_result.kind = "record") =>
        LET r == c_result.record
            failed(out) == out.kind = "GithubException"
        IN  /\ DOMAIN r = RECORD_GROUPS
            /\ IF failed(c_env.languages)
               THEN r.languages = [primary |-> None, breakdown |-> <<>>]
               ELSE IF c_env.languages.val = <<>>
               THEN r.languages = [primary |-> None, breakdown |-> <<>>]
               ELSE LanguagesFetched(r.languages, c_env.languages.val)
            /\ IF failed(c_env.license) \/ ~c_env.license.val.present
               THEN r.license = [key |-> None, name |-> None, spdx_id |-> None,
                                 url |-> None]
               ELSE r.license = [key |-> c_env.license.val.key,
                                 name |-> c_env.license.val.name,
                                 spdx_id |-> c_env.license.val.spdx_id,
                                 url |-> c_env.license.val.url]
            /\ r.topics = IF failed(c_env.topics) THEN <<>> ELSE c_env.topics.val
            /\ IF failed(c_env.readme) THEN r.readme_preview = ReadmeNone
               ELSE /\ r.readme_preview.text
                    /\ Len(c_env.readme.val) <= README_MAX_CHARS
                          => r.readme_preview.chars = c_env.readme.val
            /\ IF \A i \in 1..3 : failed(c_env.contents[i])
               THEN r.ownership.codeowners = [exists |-> FALSE, owners |-> {}]
               ELSE c_env.contents[1].kind # "UnicodeDecodeError"
                       => r.ownership.codeowners.exists
            /\ DOMAIN r.ownership = {"owner", "top_contributors", "teams", "codeowners"}
            /\ r.activity.commit_count_30d =
                  (IF failed(c_env.commits) THEN 0 ELSE c_env.commits.val)
            /\ r.activity.open_pull_requests =
                  (IF failed(c_env.pulls) THEN 0 ELSE c_env.pulls.val)
            /\ r.ownership.teams = c_env.teams.val
            /\ r.basic_info.name = c_repo.name

C7_Witness ==
    /\ cpc = "done" /\ c_result.kind = "record"
    /\ c_env.languages.kind = "GithubException"
    /\ c_env.license.kind = "GithubException"
    /\ c_env.readme.kind = "GithubException"
    /\ \A i \in 1..3 : c_env.contents[i].kind = "GithubException"
    /\ c_env.topics.kind = "ok"
    /\ c_result.record.topics = << "python", "testing" >>
    /\ c_result.record.license.key = None
    /\ c_env.commits.kind = "ok" /\ c_env.teams.kind = "ok"

\* two calls have ended, both returned, on a destination that did not exist
\* before the first, the second with backup_previous set
TwoWritesWithBackup ==
    /\ Len(g_log) = 2
    /\ g_log[1].outcome = "returned" /\ g_log[2].outcome = "returned"
    /\ ~g_log[1].found.exists
    /\ g_log[2].backup_previous

\* exactly one backup file, holding the first report, beside the second report
OneBackupOfFirstWrite ==
    /\ Cardinality(backups) = 1
    /\ \A b \in backups : b.data = g_log[1].report
    /\ dest = File(g_log[2].report)

\* a call that finds no file at the destination, or has backup_previous
\* false, creates no backup file and leaves the backups there are
NoBackupWithoutCause ==
    (gpc = "backup" /\ (~g_backup \/ ~dest.exists)) => backups' = backups

\* C8 as stated (SpecGen): writing twice to the same path with backup enabled
\* leaves exactly one backup file, which holds the first report, beside the
\* output file, which holds the second.
C8_AlwaysExactlyOneBackup == TwoWritesWithBackup => OneBackupOfFirstWrite

\* C8 as amended (SpecGen): the same, provided the rename of the existing
\* file succeeded; when the rename failed no backup file exists and the output
\* file still holds the second report.  No backup is created when the
\* destination does not exist or backup_previous is false.
C8_BackupBeforeOverwrite ==
    /\ [](TwoWritesWithBackup =>
            IF g_log[2].renamed = "ok" THEN OneBackupOfFirstWrite
            ELSE backups = {} /\ dest = File(g_log[2].report))
    /\ [][NoBackupWithoutCause]_vars

C8_Witness ==
    /\ TwoWritesWithBackup
    /\ g_log[2].renamed = "ok"
    /\ OneBackupOfFirstWrite
    /\ g_log[1].report # g_log[2].report

\* C9 (SpecGen): a rename that fails never makes generate_output raise; the
\* call goes on to write the new report over the old file and to validate it,
\* and when it returns the destination holds the new report.
C9_BackupFailureDoesNotAbort ==
    /\ gpc = "raised" => g_exc # Exc("OSError", "rename")
    /\ g_renamed = "failed" => gpc \in {"open", "write", "returned", "raised",
                                         "interrupted"}
    /\ (g_renamed = "failed" /\ gpc = "returned") =>
          /\ dest = File(g_chunks)
          /\ json_load(dest.data).repositories.items = g_repos
          /\ _validate_output(dest) = NoExc

C9_Witness ==
    /\ g_renamed = "failed" /\ gpc = "returned"
    /\ g_prev.exists /\ g_prev # dest
    /\ Len(g_repos) = 2

\* the checks of _validate_output, in order, on a parsed document
HasSection(data, k) == data.t = "object" /\ k \in data.members
HasKey(md, k) == md.t = "object" /\ k \in md.keys

\* the message of the first check the document violates, None when it
\* violates none
FirstViolated(data) ==
    CASE ~HasSection(data, "metadata") -> "Missing 'metadata' section"
      [] ~HasSection(data, "repositories") -> "Missing 'repositories' section"
      [] data.repositories.t # "array" -> "'repositories' must be a list"
      [] ~HasKey(data.metadata, "generated_at") -> "Missing 'generated_at' in metadata"
      [] ~HasKey(data.metadata, "organization") -> "Missing 'organization' in metadata"
      [] ~HasKey(data.metadata, "total_repositories") ->
             "Missing 'total_repositories' in metadata"
      [] Len(data.repositories.items) # data.metadata.total_repositories ->
             "Repository count mismatch"
      [] OTHER -> None

\* the first violated check is a membership test on a JSON number, which
\* Python cannot evaluate
TestsScalar(data) ==
    \/ data.t = "number"
    \/ /\ HasSection(data, "metadata") /\ HasSection(data, "repositories")
       /\ data.repositories.t = "array"
       /\ data.metadata.t = "number"

METRICS ==
    { <<"commits", "commit_count_30d">>,
      <<"contributors_count", "contributor_count">>,
      <<"pulls", "open_pull_requests">> }

\* the four counts of the activity group are those of the handle
CountsFromHandle(group, repo) ==
    /\ group.stars = Count(repo, "stargazers_count")
    /\ group.watchers = Count(repo, "watchers_count")
    /\ group.forks = Count(repo, "forks_count")
    /\ group.open_issues = Count(repo, "open_issues_count")

LanguagesReported == c_env.languages.kind = "ok" /\ c_env.languages.val # <<>>

\* C16 (SpecLanguages): for every non-empty mapping, languages.primary is a
\* language of maximal byte count, the first such in the source's order; for
\* an empty mapping or a failed lookup primary is null and breakdown empty.
C16_PrimaryIsFirstMaximum ==
    cpc = "done" =>
        LET langs == c_env.languages.val
        IN  /\ c_result.exc = NoExc
            /\ IF LanguagesReported
               THEN \E i \in 1..Len(langs) :
                       /\ c_result.value.primary = langs[i].lang
                       /\ \A j \in 1..Len(langs) : langs[j].bytes <= langs[i].bytes
                       /\ \A j \in 1..(i - 1) : langs[j].bytes < langs[i].bytes
               ELSE c_result.value = [primary |-> None, breakdown |-> <<>>]

\* the sum of the percentages of a breakdown, in tenths of a percent
RECURSIVE SumPct10(_)
SumPct10(breakdown) ==
    IF breakdown = <<>> THEN 0
    ELSE breakdown[1].pct10 + SumPct10(Tail(breakdown))

\* the distance of x from y
Dist(x, y) == IF x < y THEN y - x ELSE x - y

\* C17 (SpecLanguages): whenever at least one language is reported, the
\* breakdown has one entry per language, each bytes / sum x 100 rounded to one
\* decimal, and the entries sum to 100.0 within 0.05 per language; also when
\* some or all byte counts are 0.
C17_BreakdownSumsTo100 ==
    (cpc = "done" /\ LanguagesReported) =>
        LET langs == c_env.languages.val
            total == SumBytes(langs)
            bd == c_result.value.breakdown
        IN  /\ c_result.exc = NoExc
            /\ Len(bd) = Len(langs)
            /\ \A i \in 1..Len(langs) :
                  /\ bd[i].lang = langs[i].lang
                  \* pct10 / 10 is within 0.05 of bytes / total x 100
                  /\ 2 * Dist(bd[i].pct10 * total, 1000 * langs[i].bytes) <= total
            \* the sum is within 0.05 x Len(langs) of 100.0
            /\ 2 * Dist(SumPct10(bd), 1000) <= Len(langs)

\* C18 (SpecReadme): a README text no longer than max_chars is the preview,
\* unchanged; of a longer text the preview is the first max_chars characters
\* followed by "...", max_chars + 3 characters in all; the preview is null
\* when there is no README.
C18_ReadmePreview ==
    cpc = "done" =>
        LET c == c_env.readme.val
            preview == c_result.value
        IN  /\ c_result.exc = NoExc
            /\ IF c_env.readme.kind # "ok" THEN ~preview.text
               ELSE /\ preview.text
                    /\ IF Len(c) <= c_max THEN preview.chars = c
                       ELSE /\ Len(preview.chars) = c_max + 3
                            /\ \A i \in 1..c_max : preview.chars[i] = c[i]
                            /\ \A i \in 1..3 : preview.chars[c_max + i] = "."

C18_Witness ==
    /\ cpc = "done"
    /\ c_env.readme = Ok(<< "x", "x", ".", "x" >>)
    /\ c_max = 2
    /\ c_result.value.chars = << "x", "x", ".", ".", "." >>

\* C14 (SpecOwnership): whenever the contributors lookup fails,
\* top_contributors is the empty list, and whenever the teams lookup fails,
\* teams is the empty list, also when the lookup fails while its results are
\* iterated, after some entries were read.
C14_FailedListsAreEmpty ==
    cpc = "done" =>
        /\ c_result.exc = NoExc
        /\ c_env.contributors.kind # "ok" => c_result.value.top_contributors = <<>>
        /\ c_env.teams.kind # "ok" => c_result.value.teams = <<>>

\* C20 (SpecOwnership): top_contributors is the prefix of the source's
\* ranking, in its order, of length min(max_contributors, number of
\* contributors); it never holds more than max_contributors entries.
C20_TopContributorsIsPrefix ==
    cpc = "done" =>
        LET ranking == c_env.contributors.val
            top == c_result.value.top_contributors
            min == IF c_max < Len(ranking) THEN c_max ELSE Len(ranking)
        IN  /\ c_result.exc = NoExc
            /\ Len(top) <= c_max
            /\ c_env.contributors.kind = "ok" =>
                  /\ Len(top) = min
                  /\ \A i \in 1..min : top[i] = ranking[i]

C20_Witness ==
    /\ cpc = "done"
    /\ c_max = 2
    /\ c_env.contributors.kind = "ok"
    /\ Len(c_env.contributors.val) = 3
    /\ c_env.contributors.val[1].login = "u2"
    /\ c_env.contributors.val[2].login = "u1"
    /\ c_result.value.top_contributors = SubSeq(c_env.contributors.val, 1, 2)

\* t[i..j] is a token of t: a maximal run of characters that are not spaces
IsToken(t, i, j) ==
    /\ i <= j
    /\ \A k \in i..j : ~IsSpace(t[k])
    /\ i = 1 \/ IsSpace(t[i - 1])
    /\ j = Len(t) \/ IsSpace(t[j + 1])

\* the first character that is not a space on the line of t that holds t[i],
\* itself not a space
FirstOfLine(t, i) ==
    LET breaks == { k \in 1..(i - 1) : t[k] = "\n" }
        start == IF breaks = {} THEN 1
                 ELSE 1 + CHOOSE k \in breaks : \A l \in breaks : l <= k
        ink == { k \in start..i : ~IsSpace(t[k]) }
    IN  t[CHOOSE k \in ink : \A l \in ink : k <= l]

\* the tokens that begin with @ on the lines that are not comments
OwnerTokens(t) ==
    { SubSeq(t, i, j) : <<i, j>> \in
        { p \in (1..Len(t)) \X (1..Len(t)) :
            /\ IsToken(t, p[1], p[2])
            /\ t[p[1]] = "@"
            /\ FirstOfLine(t, p[1]) # "#" } }

\* C19 (SpecCodeowners): the owners extracted from a CODEOWNERS text are
\* exactly the whitespace-separated tokens beginning with @ on the lines that
\* are not empty and whose first non-space character is not #, as a set; and
\* exists is true.
C19_CodeownersParse ==
    cpc = "done" =>
        /\ c_result.exc = NoExc
        /\ c_result.value.codeowners.exists
        /\ c_result.value.codeowners.owners = OwnerTokens(c_env.contents[1].val)

C19_Witness ==
    /\ cpc = "done"
    /\ c_env.contents[1].val = << "#", "\n", "@", "a" >>
    /\ c_result.value.codeowners = [exists |-> TRUE, owners |-> { << "@", "a" >> }]

\* a step in which the listing call or its iteration raises to the caller
ListingRaises == epc \in {"get_repos", "iterate"} /\ epc' = "raised"

\* C13 (SpecEnum): a failure of the listing call or of its iteration that is
\* not quota exhaustion reaches the caller as that error, with no wait and no
\* restart: after one listing attempt when quota was never exhausted; and a
\* list is returned only by an iteration that reached the end of the listing.
C13_OtherFailuresPropagate ==
    /\ [](epc = "raised" /\ rl_failures = 0 /\ attempts >= 1 =>
            /\ eraised = "GithubException"
            /\ attempts = 1
            /\ sleeps = <<>>
            /\ eresult = <<>>)
    /\ [](epc = "returned" => eraised = None /\ pos = Len(all_repos) + 1)
    /\ [][ListingRaises =>
            /\ eraised' = "GithubException"
            /\ attempts' <= attempts + 1
            /\ sleeps' = sleeps
            /\ eresult' = <<>>]_vars
    /\ [][epc = "raised" => UNCHANGED evars]_vars

C13_Witness ==
    /\ epc = "raised"
    /\ eraised = "GithubException"
    /\ attempts = 1 /\ rl_failures = 0
    /\ pos = 2 /\ repositories # <<>>
    /\ eresult = <<>>

\* the run enumerated at least one repository, aggregated every one of them
\* and wrote and validated the report
CleanRun ==
    /\ m_repos # <<>>
    /\ Len(repository_data) = Len(m_repos)
    /\ failed_repos = <<>>
    /\ gpc = "returned"

\* C11 (Spec): a run that enumerated at least one repository, in which no
\* repository failed aggregation and the report was written and validated,
\* ends with exit status 0.
C11_CleanRunExitsZero ==
    (mpc = "exited" /\ CleanRun) => exit_code = 0

\* C12 (Spec): the status of a completed run with aggregation failures is not
\* zero and differs from the status of an empty repository set, from the
\* status of a user interruption and from the status of an unhandled
\* exception.
C12_PartialFailureStatusDistinct ==
    (mpc = "exited" /\ exit_at = 241 /\ failed_repos # <<>>) =>
        /\ exit_code # 0
        /\ exit_code # EXIT_NOTHING_FOUND
        /\ exit_code # EXIT_INTERRUPTED
        /\ exit_code # EXIT_FAILURE

\* the key of the status group that holds the capability a
StatusKey(a) ==
    CASE a = "archived" -> "is_archived"
      [] a = "fork" -> "is_fork"
      [] a = "disabled" -> "is_disabled"
      [] OTHER -> a

\* what the handle reports for the capability a
ReportedFlag(repo, a) ==
    CASE a = "archived" -> repo.archived
      [] a = "fork" -> repo.fork
      [] OTHER -> FlagVal(repo, a)

\* C21 (SpecStatus): for every set of status capabilities the handle does
\* not report, _collect_status does not fail and returns false for exactly
\* the unreported flags and the reported value for each of the others.
C21_StatusFlagsAbsentSafe ==
    cpc = "done" =>
        /\ c_result.exc = NoExc
        /\ \A i \in 1..Len(STATUS_ATTRS) :
              LET a == STATUS_ATTRS[i]
              IN  c_result.value[StatusKey(a)] =
                     IF a \in c_repo.missing THEN FALSE ELSE ReportedFlag(c_repo, a)

\* the records of the report create_summary was called on
SummarizedRecords == json_load(s_file.data).repositories.items

RECURSIVE SumCounts(_, _)
SumCounts(counts, keys) ==
    IF keys = {} THEN 0
    ELSE LET k == CHOOSE x \in keys : TRUE
         IN  counts[k] + SumCounts(counts, keys \ {k})

\* C22 (SpecSummary): license_breakdown counts the records with a null
\* license key under "unlicensed" and every other record under its own key,
\* the counts sum to the number of records of the report, and the report
\* file is as create_summary found it.
C22_LicenseBreakdown ==
    spc = "done" =>
        LET repos == SummarizedRecords
            idx == 1..Len(repos)
            null == { i \in idx : repos[i].license.key = None }
            keys == { repos[i].license.key : i \in idx \ null }
            lb == s_result.value.license_breakdown
        IN  /\ s_result.exc = NoExc
            /\ DOMAIN lb = keys \cup (IF null = {} THEN {} ELSE { "unlicensed" })
            /\ null # {} => lb["unlicensed"] = Cardinality(null)
            /\ \A k \in keys :
                  lb[k] = Cardinality({ i \in idx : repos[i].license.key = k })
            /\ SumCounts(lb, DOMAIN lb) = Len(repos)
            /\ dest = s_file

C22_Witness ==
    /\ spc = "done"
    /\ s_result.exc = NoExc
    /\ DOMAIN s_result.value.license_breakdown = { "unlicensed", "mit", "apache-2.0" }
    /\ s_result.value.license_breakdown["unlicensed"] = 1

Restarts == epc = "rate_limit" /\ epc' = "get_organization"

\* C24 (SpecEnum): after a listing attempt was aborted by quota exhaustion,
\* the enumeration restarts from scratch with the same filters: every attempt
\* starts with an empty accumulator, and the list finally returned is the
\* filtered listing of the last attempt alone, with nothing of an aborted
\* attempt in it and no handle twice.
C24_RestartFromScratch ==
    /\ [](epc = "returned" /\ rl_failures > 0 =>
            /\ eresult = SelectSeq(all_repos, Included)
            /\ \A i, j \in 1..Len(eresult) : i < j => eresult[i] # eresult[j])
    /\ [](epc = "get_repos" => repositories = <<>>)
    /\ [][Restarts =>
            /\ include_forks' = include_forks
            /\ include_archived' = include_archived]_vars
    /\ [][epc = "get_organization" /\ epc' = "get_repos" =>
            repositories' = <<>>]_vars

\* an attempt that had accepted a handle was aborted, and the restart
\* returned a listing of two
C24_Witness ==
    /\ epc = "returned"
    /\ rl_failures > 0
    /\ discarded = 1
    /\ Len(all_repos) = 2 /\ Len(eresult) = 2

\* the handle has no entry in the failure list
NotFailed(h) == \A k \in 1..Len(failed_repos) : failed_repos[k].name # FullName(h)

\* the names of the records of a list, in its order
RecordNames(recs) == [i \in 1..Len(recs) |-> recs[i].basic_info.name]

\* C25 (Spec): the result sequence changes only by an append of one turn of
\* the loop; when the loop has run to its end, results and failures together
\* are as many as the enumerated handles; generate_output is called once,
\* after the last handle, and the report it leaves holds the records of the
\* handles that did not fail, in enumeration order, with total_repositories
\* their number.
C25_ResultsGrowInOrder ==
    /\ [][repository_data' # repository_data =>
            /\ mpc = "loop"
            /\ m_idx' = m_idx + 1
            /\ Len(repository_data') = Len(repository_data) + 1
            /\ SubSeq(repository_data', 1, Len(repository_data)) = repository_data]_vars
    /\ [](mpc = "generate" =>
            Len(repository_data) + Len(failed_repos) = Len(m_repos))
    /\ [][gpc' # gpc /\ gpc = "idle" =>
            /\ mpc = "loop" /\ m_idx = Len(m_repos) + 1
            /\ g_repos' = repository_data]_vars
    /\ [][gpc # "idle" => gpc' # "idle"]_vars
    /\ [](Len(g_log) <= 1)
    /\ [](exit_at = 241 => Len(g_log) = 1 /\ gpc = "returned")
    /\ [](gpc = "returned" =>
            LET data == json_load(dest.data)
            IN  /\ data.repositories.items = repository_data
                /\ RecordNames(repository_data) =
                      [i \in 1..Len(SelectSeq(m_repos, NotFailed)) |->
                          SelectSeq(m_repos, NotFailed)[i].name]
                /\ data.metadata.total_repositories = Len(SelectSeq(m_repos, NotFailed))
                /\ data.metadata.total_repositories = Len(m_repos) - Len(failed_repos))

\* two handles enumerated, the first failed: a report of one record
C25_Witness ==
    /\ gpc = "returned"
    /\ Len(m_repos) = 2
    /\ Len(failed_repos) = 1
    /\ failed_repos[1].name = FullName(m_repos[1])
    /\ json_load(dest.data).metadata.total_repositories = 1
    /\ RecordNames(json_load(dest.data).repositories.items) = << m_repos[2].name >>

\* C26 (SpecEnumFair): every quota exhaustion of a listing attempt is
\* followed by one restart, so that a call that returns has made one listing
\* attempt more than it had such failures; and a call in which quota is
\* exhausted finitely often and nothing else fails eventually returns a list.
C26_RestartsAndReturns ==
    /\ [](epc = "returned" => attempts = rl_failures + 1)
    /\ [](epc \in {"get_repos", "rate_limit"} => attempts = rl_failures)
    /\ [](epc = "iterate" => attempts = rl_failures + 1)
    /\ (epc = "get_organization" ~>
            (epc = "returned" \/ (epc = "raised" /\ eraised = "GithubException")))

\* the lookups that failed in the environment of the call
QuotaHit == { l \in LOOKUPS \ { "contents" } : c_env[l].kind # "ok" }
                \cup (IF c_env.contents[1].kind = "RateLimitExceededException"
                      THEN { "contents" } ELSE {})

\* the call made contributors or teams fail after an entry
QuotaPartial ==
    \/ c_env.contributors.kind # "ok" /\ c_env.contributors.val # <<>>
    \/ c_env.teams.kind # "ok" /\ c_env.teams.val # <<>>

FirstOf(S) == IF S = {} THEN 0 ELSE CHOOSE i \in S : \A j \in S : i <= j

\* the candidates that resolve: their lookup answers content that decodes
Resolving == { i \in 1..3 : c_env.contents[i].kind = "ok" }

\* the candidates whose lookup does not raise an API error
Answering ==
    { i \in 1..3 : c_env.contents[i].kind
                      \notin { "GithubException", "RateLimitExceededException" } }

\* the candidate paths up to the i-th, all of them when i = 0
PathsUpTo(i) ==
    IF i = 0 THEN << ".github/CODEOWNERS", "CODEOWNERS", "docs/CODEOWNERS" >>
    ELSE SubSeq(<< ".github/CODEOWNERS", "CODEOWNERS", "docs/CODEOWNERS" >>, 1, i)

C29_WaitThenRestart ==
    /\ [][epc = "rate_limit" /\ epc' # "raised" =>
            LET wait == reset_delta' + 10
            IN  /\ epc' = "get_organization"
                /\ attempts' = attempts
                /\ wait > 0 => sleeps' = Append(sleeps, wait)
                /\ wait <= 0 => sleeps' = sleeps]_vars
    /\ [][sleeps' # sleeps => epc = "rate_limit"]_vars

\* two quota exhaustions: the first waited 15 seconds, the second, with the
\* reset instant 10 seconds past, did not wait
C29_Witness ==
    /\ epc = "get_organization"
    /\ rl_failures = 2
    /\ reset_delta = -10
    /\ sleeps = << 15 >>

\* C30 (SpecSince): whatever the current UTC instant, the since-timestamp of
\* the commit count is day 1, 00:00:00, of the current month and year.
C30_SinceIsStartOfMonth ==
    cpc = "done" =>
        c_result.value = Instant(c_env.now.year, c_env.now.month, 1, 0, 0, 0)

====
